---- MODULE Spec2Model ----
(***************************************************************************)
(* A model of library/aesni.c (mbed TLS AES-NI support functions):         *)
(*   mbedtls_aesni_has_support   - lazily cached CPUID feature probe       *)
(*   mbedtls_aesni_crypt_ecb     - one-block AES en/decryption             *)
(*   mbedtls_aesni_gcm_mult      - GF(2^128) multiplication for GCM        *)
(*   mbedtls_aesni_inverse_key   - decryption round keys                   *)
(*   mbedtls_aesni_setkey_enc    - key expansion (128/192/256)             *)
(* The file has two compile-time variants of every routine: inline         *)
(* assembly (the default) and compiler intrinsics                          *)
(* (USE_MSVC_X64_INTRINSICS).  Both are modelled; the variable `build`     *)
(* records which one the program was compiled as.                          *)
(*                                                                         *)
(* A 128-bit register (xmm / __m128i) is a tuple of 16 bytes, index 1      *)
(* holding the least significant byte (memory offset 0 of a movdqu).       *)
(* An inline assembly block is kept as the list of its instructions, in    *)
(* the operand order of the source (AT&T: source first), and run by Exec.  *)
(***************************************************************************)
EXTENDS Integers, Sequences, FiniteSets, TLC

(***************************************************************************)
(* Bytes and bitwise arithmetic.                                           *)
(***************************************************************************)
\* XOR4[a + 1][b + 1] = a XOR b and OR4[a + 1][b + 1] = a OR b on 4-bit values
XOR4 ==
    <<
       <<  0,  1,  2,  3,  4,  5,  6,  7,  8,  9, 10, 11, 12, 13, 14, 15 >>,
       <<  1,  0,  3,  2,  5,  4,  7,  6,  9,  8, 11, 10, 13, 12, 15, 14 >>,
       <<  2,  3,  0,  1,  6,  7,  4,  5, 10, 11,  8,  9, 14, 15, 12, 13 >>,
       <<  3,  2,  1,  0,  7,  6,  5,  4, 11, 10,  9,  8, 15, 14, 13, 12 >>,
       <<  4,  5,  6,  7,  0,  1,  2,  3, 12, 13, 14, 15,  8,  9, 10, 11 >>,
       <<  5,  4,  7,  6,  1,  0,  3,  2, 13, 12, 15, 14,  9,  8, 11, 10 >>,
       <<  6,  7,  4,  5,  2,  3,  0,  1, 14, 15, 12, 13, 10, 11,  8,  9 >>,
       <<  7,  6,  5,  4,  3,  2,  1,  0, 15, 14, 13, 12, 11, 10,  9,  8 >>,
       <<  8,  9, 10, 11, 12, 13, 14, 15,  0,  1,  2,  3,  4,  5,  6,  7 >>,
       <<  9,  8, 11, 10, 13, 12, 15, 14,  1,  0,  3,  2,  5,  4,  7,  6 >>,
       << 10, 11,  8,  9, 14, 15, 12, 13,  2,  3,  0,  1,  6,  7,  4,  5 >>,
       << 11, 10,  9,  8, 15, 14, 13, 12,  3,  2,  1,  0,  7,  6,  5,  4 >>,
       << 12, 13, 14, 15,  8,  9, 10, 11,  4,  5,  6,  7,  0,  1,  2,  3 >>,
       << 13, 12, 15, 14,  9,  8, 11, 10,  5,  4,  7,  6,  1,  0,  3,  2 >>,
       << 14, 15, 12, 13, 10, 11,  8,  9,  6,  7,  4,  5,  2,  3,  0,  1 >>,
       << 15, 14, 13, 12, 11, 10,  9,  8,  7,  6,  5,  4,  3,  2,  1,  0 >>
    >>

OR4 ==
    <<
       <<  0,  1,  2,  3,  4,  5,  6,  7,  8,  9, 10, 11, 12, 13, 14, 15 >>,
       <<  1,  1,  3,  3,  5,  5,  7,  7,  9,  9, 11, 11, 13, 13, 15, 15 >>,
       <<  2,  3,  2,  3,  6,  7,  6,  7, 10, 11, 10, 11, 14, 15, 14, 15 >>,
       <<  3,  3,  3,  3,  7,  7,  7,  7, 11, 11, 11, 11, 15, 15, 15, 15 >>,
       <<  4,  5,  6,  7,  4,  5,  6,  7, 12, 13, 14, 15, 12, 13, 14, 15 >>,
       <<  5,  5,  7,  7,  5,  5,  7,  7, 13, 13, 15, 15, 13, 13, 15, 15 >>,
       <<  6,  7,  6,  7,  6,  7,  6,  7, 14, 15, 14, 15, 14, 15, 14, 15 >>,
       <<  7,  7,  7,  7,  7,  7,  7,  7, 15, 15, 15, 15, 15, 15, 15, 15 >>,
       <<  8,  9, 10, 11, 12, 13, 14, 15,  8,  9, 10, 11, 12, 13, 14, 15 >>,
       <<  9,  9, 11, 11, 13, 13, 15, 15,  9,  9, 11, 11, 13, 13, 15, 15 >>,
       << 10, 11, 10, 11, 14, 15, 14, 15, 10, 11, 10, 11, 14, 15, 14, 15 >>,
       << 11, 11, 11, 11, 15, 15, 15, 15, 11, 11, 11, 11, 15, 15, 15, 15 >>,
       << 12, 13, 14, 15, 12, 13, 14, 15, 12, 13, 14, 15, 12, 13, 14, 15 >>,
       << 13, 13, 15, 15, 13, 13, 15, 15, 13, 13, 15, 15, 13, 13, 15, 15 >>,
       << 14, 15, 14, 15, 14, 15, 14, 15, 14, 15, 14, 15, 14, 15, 14, 15 >>,
       << 15, 15, 15, 15, 15, 15, 15, 15, 15, 15, 15, 15, 15, 15, 15, 15 >>
    >>

Xor(a, b) ==
    16 * XOR4[(a \div 16) + 1][(b \div 16) + 1] + XOR4[(a % 16) + 1][(b % 16) + 1]

Or(a, b) ==
    16 * OR4[(a \div 16) + 1][(b \div 16) + 1] + OR4[(a % 16) + 1][(b % 16) + 1]

Pow2(n) == 2 ^ n

\* TLC evaluates an operator's arguments on demand.  After(v, e) is e, with v
\* computed first, so that a chain of instructions is evaluated in program
\* order rather than unwound from its last result.
After(v, e) == IF v = v THEN e ELSE e

Zero16 == << 0, 0, 0, 0, 0, 0, 0, 0, 0, 0, 0, 0, 0, 0, 0, 0 >>

(***************************************************************************)
(* SSE2 register instructions used by the assembly and by the intrinsics.  *)
(***************************************************************************)
\* pxor / _mm_xor_si128
pxor(a, b) ==
    << Xor(a[1], b[1]), Xor(a[2], b[2]), Xor(a[3], b[3]), Xor(a[4], b[4]),
       Xor(a[5], b[5]), Xor(a[6], b[6]), Xor(a[7], b[7]), Xor(a[8], b[8]),
       Xor(a[9], b[9]), Xor(a[10], b[10]), Xor(a[11], b[11]), Xor(a[12], b[12]),
       Xor(a[13], b[13]), Xor(a[14], b[14]), Xor(a[15], b[15]), Xor(a[16], b[16]) >>

\* por / _mm_or_si128
por(a, b) ==
    << Or(a[1], b[1]), Or(a[2], b[2]), Or(a[3], b[3]), Or(a[4], b[4]),
       Or(a[5], b[5]), Or(a[6], b[6]), Or(a[7], b[7]), Or(a[8], b[8]),
       Or(a[9], b[9]), Or(a[10], b[10]), Or(a[11], b[11]), Or(a[12], b[12]),
       Or(a[13], b[13]), Or(a[14], b[14]), Or(a[15], b[15]), Or(a[16], b[16]) >>

\* pslldq $n / _mm_slli_si128: shift the whole register left by n bytes
pslldq(x, n) == SubSeq(Zero16, 1, n) \o SubSeq(x, 1, 16 - n)

\* psrldq $n / _mm_srli_si128: shift the whole register right by n bytes
psrldq(x, n) == SubSeq(x, n + 1, 16) \o SubSeq(Zero16, 1, n)

\* pshufd $imm / _mm_shuffle_epi32: dword j of the result is dword
\* (imm >> 2j) & 3 of the source
pshufd(x, imm) ==
    SubSeq(x, 4 * (imm % 4) + 1, 4 * (imm % 4) + 4)
        \o SubSeq(x, 4 * ((imm \div 4) % 4) + 1, 4 * ((imm \div 4) % 4) + 4)
        \o SubSeq(x, 4 * ((imm \div 16) % 4) + 1, 4 * ((imm \div 16) % 4) + 4)
        \o SubSeq(x, 4 * ((imm \div 64) % 4) + 1, 4 * ((imm \div 64) % 4) + 4)

\* byte j (0..7) of 64-bit lane `lane`, zero outside the lane
LaneByte(x, lane, j) == IF j < 0 \/ j > 7 THEN 0 ELSE x[8 * lane + j + 1]

\* byte i (1..16) of the register after each 64-bit lane moved left by n bits
psllq_byte(x, n, i) ==
    ((LaneByte(x, (i - 1) \div 8, ((i - 1) % 8) - (n \div 8)) * Pow2(n % 8)) % 256)
    + (LaneByte(x, (i - 1) \div 8, ((i - 1) % 8) - (n \div 8) - 1) \div Pow2(8 - (n % 8)))

\* psllq with a shift count one too small
psllq_short(x, n) ==
    << psllq_byte(x, n - 1, 1), psllq_byte(x, n - 1, 2), psllq_byte(x, n - 1, 3),
       psllq_byte(x, n - 1, 4), psllq_byte(x, n - 1, 5), psllq_byte(x, n - 1, 6),
       psllq_byte(x, n - 1, 7), psllq_byte(x, n - 1, 8), psllq_byte(x, n - 1, 9),
       psllq_byte(x, n - 1, 10), psllq_byte(x, n - 1, 11), psllq_byte(x, n - 1, 12),
       psllq_byte(x, n - 1, 13), psllq_byte(x, n - 1, 14), psllq_byte(x, n - 1, 15),
       psllq_byte(x, n - 1, 16) >>

\* psllq $n / _mm_slli_epi64: shift each 64-bit lane left by n bits
psllq(x, n) ==
    << psllq_byte(x, n, 1), psllq_byte(x, n, 2), psllq_byte(x, n, 3), psllq_byte(x, n, 4),
       psllq_byte(x, n, 5), psllq_byte(x, n, 6), psllq_byte(x, n, 7), psllq_byte(x, n, 8),
       psllq_byte(x, n, 9), psllq_byte(x, n, 10), psllq_byte(x, n, 11), psllq_byte(x, n, 12),
       psllq_byte(x, n, 13), psllq_byte(x, n, 14), psllq_byte(x, n, 15), psllq_byte(x, n, 16) >>

\* byte i (1..16) of the register after each 64-bit lane moved right by n bits
psrlq_byte(x, n, i) ==
    (LaneByte(x, (i - 1) \div 8, ((i - 1) % 8) + (n \div 8)) \div Pow2(n % 8))
    + ((LaneByte(x, (i - 1) \div 8, ((i - 1) % 8) + (n \div 8) + 1) * Pow2(8 - (n % 8))) % 256)

\* psrlq $n / _mm_srli_epi64: shift each 64-bit lane right by n bits
psrlq(x, n) ==
    << psrlq_byte(x, n, 1), psrlq_byte(x, n, 2), psrlq_byte(x, n, 3), psrlq_byte(x, n, 4),
       psrlq_byte(x, n, 5), psrlq_byte(x, n, 6), psrlq_byte(x, n, 7), psrlq_byte(x, n, 8),
       psrlq_byte(x, n, 9), psrlq_byte(x, n, 10), psrlq_byte(x, n, 11), psrlq_byte(x, n, 12),
       psrlq_byte(x, n, 13), psrlq_byte(x, n, 14), psrlq_byte(x, n, 15), psrlq_byte(x, n, 16) >>

\* 64-bit lane j (0 = low) of a register, as 8 bytes
Lane(x, j) == SubSeq(x, 8 * j + 1, 8 * j + 8)

\* _mm_shuffle_pd through the mm_shuffle_epi64 macro: the low half is a lane
\* of a, the high half a lane of b, each picked by one bit of ctrl
mm_shuffle_epi64(a, b, ctrl) == Lane(a, ctrl % 2) \o Lane(b, (ctrl \div 2) % 2)

\* byte i (1..16) of a 128-bit value moved left by one bit
shl1_byte(x, i) == ((2 * x[i]) % 256) + (IF i = 1 THEN 0 ELSE x[i - 1] \div 128)

shl1(x) ==
    << shl1_byte(x, 1), shl1_byte(x, 2), shl1_byte(x, 3), shl1_byte(x, 4),
       shl1_byte(x, 5), shl1_byte(x, 6), shl1_byte(x, 7), shl1_byte(x, 8),
       shl1_byte(x, 9), shl1_byte(x, 10), shl1_byte(x, 11), shl1_byte(x, 12),
       shl1_byte(x, 13), shl1_byte(x, 14), shl1_byte(x, 15), shl1_byte(x, 16) >>

\* carry-less multiplication, bit by bit: for each set bit k of the 8-byte
\* multiplier a (from bit `k` up), acc ^= b << k; b arrives already moved
RECURSIVE clmul_bits(_, _, _, _)
clmul_bits(abyte, b, k, acc) ==
    After(<< b, acc >>,
        IF k = 8 THEN << b, acc >>
        ELSE clmul_bits(abyte, shl1(b), k + 1,
                 IF (abyte \div Pow2(k)) % 2 = 1 THEN pxor(acc, b) ELSE acc))

RECURSIVE clmul_bytes(_, _, _, _)
clmul_bytes(a, bacc, j, n) ==
    After(bacc,
        IF j > n THEN bacc[2]
        ELSE clmul_bytes(a, clmul_bits(a[j], bacc[1], 0, bacc[2]), j + 1, n))

\* a carry-less product whose accumulator starts from a instead of zero
clmul64_seeded(a, b) ==
    clmul_bytes(a, << b \o SubSeq(Zero16, 1, 8), a \o SubSeq(Zero16, 1, 8) >>, 1, 8)

\* the 128-bit carry-less product of two 64-bit values (8 bytes each)
clmul64(a, b) == clmul_bytes(a, << b \o SubSeq(Zero16, 1, 8), Zero16 >>, 1, 8)

\* PCLMULQDQ that always takes the low lane of its first operand
PCLMULQDQ_lane0(src, dst, imm) == clmul64(Lane(dst, 0), Lane(src, (imm \div 16) % 2))

\* PCLMULQDQ src, dst, imm / _mm_clmulepi64_si128( dst, src, imm ): bit 0 of
\* imm picks the lane of the first (destination) operand, bit 4 the lane of
\* the second (source) operand
PCLMULQDQ(src, dst, imm) == clmul64(Lane(dst, imm % 2), Lane(src, (imm \div 16) % 2))

(***************************************************************************)
(* The AES-NI instructions (opcodes emitted by the macros of the file).    *)
(***************************************************************************)
SBOX ==
    <<
        99, 124, 119, 123, 242, 107, 111, 197,  48,   1, 103,  43, 254, 215, 171, 118,
       202, 130, 201, 125, 250,  89,  71, 240, 173, 212, 162, 175, 156, 164, 114, 192,
       183, 253, 147,  38,  54,  63, 247, 204,  52, 165, 229, 241, 113, 216,  49,  21,
         4, 199,  35, 195,  24, 150,   5, 154,   7,  18, 128, 226, 235,  39, 178, 117,
         9, 131,  44,  26,  27, 110,  90, 160,  82,  59, 214, 179,  41, 227,  47, 132,
        83, 209,   0, 237,  32, 252, 177,  91, 106, 203, 190,  57,  74,  76,  88, 207,
       208, 239, 170, 251,  67,  77,  51, 133,  69, 249,   2, 127,  80,  60, 159, 168,
        81, 163,  64, 143, 146, 157,  56, 245, 188, 182, 218,  33,  16, 255, 243, 210,
       205,  12,  19, 236,  95, 151,  68,  23, 196, 167, 126,  61, 100,  93,  25, 115,
        96, 129,  79, 220,  34,  42, 144, 136,  70, 238, 184,  20, 222,  94,  11, 219,
       224,  50,  58,  10,  73,   6,  36,  92, 194, 211, 172,  98, 145, 149, 228, 121,
       231, 200,  55, 109, 141, 213,  78, 169, 108,  86, 244, 234, 101, 122, 174,   8,
       186, 120,  37,  46,  28, 166, 180, 198, 232, 221, 116,  31,  75, 189, 139, 138,
       112,  62, 181, 102,  72,   3, 246,  14,  97,  53,  87, 185, 134, 193,  29, 158,
       225, 248, 152,  17, 105, 217, 142, 148, 155,  30, 135, 233, 206,  85,  40, 223,
       140, 161, 137,  13, 191, 230,  66, 104,  65, 153,  45,  15, 176,  84, 187,  22
    >>
INV_SBOX ==
    <<
        82,   9, 106, 213,  48,  54, 165,  56, 191,  64, 163, 158, 129, 243, 215, 251,
       124, 227,  57, 130, 155,  47, 255, 135,  52, 142,  67,  68, 196, 222, 233, 203,
        84, 123, 148,  50, 166, 194,  35,  61, 238,  76, 149,  11,  66, 250, 195,  78,
         8,  46, 161, 102,  40, 217,  36, 178, 118,  91, 162,  73, 109, 139, 209,  37,
       114, 248, 246, 100, 134, 104, 152,  22, 212, 164,  92, 204,  93, 101, 182, 146,
       108, 112,  72,  80, 253, 237, 185, 218,  94,  21,  70,  87, 167, 141, 157, 132,
       144, 216, 171,   0, 140, 188, 211,  10, 247, 228,  88,   5, 184, 179,  69,   6,
       208,  44,  30, 143, 202,  63,  15,   2, 193, 175, 189,   3,   1,  19, 138, 107,
        58, 145,  17,  65,  79, 103, 220, 234, 151, 242, 207, 206, 240, 180, 230, 115,
       150, 172, 116,  34, 231, 173,  53, 133, 226, 249,  55, 232,  28, 117, 223, 110,
        71, 241,  26, 113,  29,  41, 197, 137, 111, 183,  98,  14, 170,  24, 190,  27,
       252,  86,  62,  75, 198, 210, 121,  32, 154, 219, 192, 254, 120, 205,  90, 244,
        31, 221, 168,  51, 136,   7, 199,  49, 177,  18,  16,  89,  39, 128, 236,  95,
        96,  81, 127, 169,  25, 181,  74,  13,  45, 229, 122, 159, 147, 201, 156, 239,
       160, 224,  59,  77, 174,  42, 245, 176, 200, 235, 187,  60, 131,  83, 153,  97,
        23,  43,   4, 126, 186, 119, 214,  38, 225, 105,  20,  99,  85,  33,  12, 125
    >>
\* multiplication by x in GF(2^8) modulo x^8 + x^4 + x^3 + x + 1
xtime(a) == Xor((2 * a) % 256, IF a >= 128 THEN 27 ELSE 0)

\* multiplication of a by the constant k in GF(2^8)
RECURSIVE GMul(_, _)
GMul(a, k) ==
    IF k = 0 THEN 0
    ELSE Xor(IF k % 2 = 1 THEN a ELSE 0, GMul(xtime(a), k \div 2))

\* the state is column-major: byte i (0-based) is row i % 4 of column i \div 4
SubBytes(s) ==
    << SBOX[s[1] + 1], SBOX[s[2] + 1], SBOX[s[3] + 1], SBOX[s[4] + 1],
       SBOX[s[5] + 1], SBOX[s[6] + 1], SBOX[s[7] + 1], SBOX[s[8] + 1],
       SBOX[s[9] + 1], SBOX[s[10] + 1], SBOX[s[11] + 1], SBOX[s[12] + 1],
       SBOX[s[13] + 1], SBOX[s[14] + 1], SBOX[s[15] + 1], SBOX[s[16] + 1] >>

InvSubBytes(s) ==
    << INV_SBOX[s[1] + 1], INV_SBOX[s[2] + 1], INV_SBOX[s[3] + 1], INV_SBOX[s[4] + 1],
       INV_SBOX[s[5] + 1], INV_SBOX[s[6] + 1], INV_SBOX[s[7] + 1], INV_SBOX[s[8] + 1],
       INV_SBOX[s[9] + 1], INV_SBOX[s[10] + 1], INV_SBOX[s[11] + 1], INV_SBOX[s[12] + 1],
       INV_SBOX[s[13] + 1], INV_SBOX[s[14] + 1], INV_SBOX[s[15] + 1], INV_SBOX[s[16] + 1] >>

\* row r of column c moves to column c - r
ShiftRows(s) ==
    << s[1], s[6], s[11], s[16], s[5], s[10], s[15], s[4],
       s[9], s[14], s[3], s[8], s[13], s[2], s[7], s[12] >>

\* InvShiftRows rotating the rows the way ShiftRows does
InvShiftRows_forward(s) ==
    << s[1], s[6], s[11], s[16], s[5], s[10], s[15], s[4],
       s[9], s[14], s[3], s[8], s[13], s[2], s[7], s[12] >>

\* row r of column c moves to column c + r
InvShiftRows(s) ==
    << s[1], s[14], s[11], s[8], s[5], s[2], s[15], s[12],
       s[9], s[6], s[3], s[16], s[13], s[10], s[7], s[4] >>

\* byte k (0-based, modulo 4) of the column that holds byte i (1-based)
ColByte(s, i, k) == s[4 * ((i - 1) \div 4) + (((i - 1) + k) % 4) + 1]

MixByte(s, i) ==
    Xor(Xor(GMul(ColByte(s, i, 0), 2), GMul(ColByte(s, i, 1), 3)),
        Xor(ColByte(s, i, 2), ColByte(s, i, 3)))

MixColumns(s) ==
    << MixByte(s, 1), MixByte(s, 2), MixByte(s, 3), MixByte(s, 4),
       MixByte(s, 5), MixByte(s, 6), MixByte(s, 7), MixByte(s, 8),
       MixByte(s, 9), MixByte(s, 10), MixByte(s, 11), MixByte(s, 12),
       MixByte(s, 13), MixByte(s, 14), MixByte(s, 15), MixByte(s, 16) >>

InvMixByte(s, i) ==
    Xor(Xor(GMul(ColByte(s, i, 0), 14), GMul(ColByte(s, i, 1), 11)),
        Xor(GMul(ColByte(s, i, 2), 13), GMul(ColByte(s, i, 3), 9)))

InvMixColumns(s) ==
    << InvMixByte(s, 1), InvMixByte(s, 2), InvMixByte(s, 3), InvMixByte(s, 4),
       InvMixByte(s, 5), InvMixByte(s, 6), InvMixByte(s, 7), InvMixByte(s, 8),
       InvMixByte(s, 9), InvMixByte(s, 10), InvMixByte(s, 11), InvMixByte(s, 12),
       InvMixByte(s, 13), InvMixByte(s, 14), InvMixByte(s, 15), InvMixByte(s, 16) >>

\* AESENC src, dst: one full encryption round, src the round key
AESENC(st, rkey) == pxor(MixColumns(SubBytes(ShiftRows(st))), rkey)

\* AESENCLAST src, dst: the last encryption round (no MixColumns)
\* a last round that mixes the columns like the other rounds
AESENCLAST_mixed(st, rkey) == AESENC(st, rkey)

AESENCLAST(st, rkey) == pxor(SubBytes(ShiftRows(st)), rkey)

\* AESDEC src, dst: one full round of the Equivalent Inverse Cipher
AESDEC(st, rkey) == pxor(InvMixColumns(InvSubBytes(InvShiftRows(st))), rkey)

\* AESDECLAST src, dst: the last decryption round (no InvMixColumns)
AESDECLAST(st, rkey) == pxor(InvSubBytes(InvShiftRows(st)), rkey)

\* AESIMC applying the forward MixColumns
AESIMC_forward(x) == MixColumns(x)

\* AESIMC src, dst: InvMixColumns of a round key
AESIMC(x) == InvMixColumns(x)

\* SubWord of dword d of x, rotated right by one byte when rot = 1, its low
\* byte XORed with rcon
KeygenWord(x, d, rot, rcon) ==
    << Xor(SBOX[x[4 * d + ((0 + rot) % 4) + 1] + 1], rcon),
       SBOX[x[4 * d + ((1 + rot) % 4) + 1] + 1],
       SBOX[x[4 * d + ((2 + rot) % 4) + 1] + 1],
       SBOX[x[4 * d + ((3 + rot) % 4) + 1] + 1] >>

\* AESKEYGENASSIST that leaves the round constant out
AESKEYGENA_noRcon(x, rcon) ==
    KeygenWord(x, 1, 0, 0) \o KeygenWord(x, 1, 1, 0)
        \o KeygenWord(x, 3, 0, 0) \o KeygenWord(x, 3, 1, 0)

\* AESKEYGENASSIST src, dst, imm8: with X1, X3 the dwords 1 and 3 of src,
\* dst = RotWord(SubWord(X3)) ^ rcon : SubWord(X3) :
\*       RotWord(SubWord(X1)) ^ rcon : SubWord(X1)
AESKEYGENA(x, rcon) ==
    KeygenWord(x, 1, 0, 0) \o KeygenWord(x, 1, 1, rcon)
        \o KeygenWord(x, 3, 0, 0) \o KeygenWord(x, 3, 1, rcon)

(***************************************************************************)
(* Memory.  A buffer is a tuple of bytes, offset k at index k + 1.  Every  *)
(* routine works on a record of named buffers and keeps a trace of what it *)
(* did: << "ld", buffer, offset, length >>, << "st", buffer, offset,       *)
(* length >> for memory accesses and << "br", position, taken >> for       *)
(* conditional branches.                                                   *)
(***************************************************************************)
ReadBytes(buf, off, n) == SubSeq(buf, off + 1, off + n)

WriteBytes(buf, off, data) ==
    SubSeq(buf, 1, off) \o data \o SubSeq(buf, off + Len(data) + 1, Len(buf))

\* the offsets of buffer b that the trace tr stored to
Written(tr, b) ==
    UNION { IF tr[i][1] = "st" /\ tr[i][2] = b
            THEN tr[i][3] .. (tr[i][3] + tr[i][4] - 1) ELSE {} : i \in DOMAIN tr }

(***************************************************************************)
(* Inline assembly.  The machine state of an asm block is                   *)
(*   pc  - position in the instruction list                                *)
(*   x   - xmm0..xmm5 (x[n + 1] is xmmN)                                   *)
(*   o   - the values of the asm operands %0, %1, ... (o[n + 1] is %n):    *)
(*         an integer, or for a pointer the offset into its buffer         *)
(*   zf  - the zero flag                                                   *)
(*   ra  - return addresses pushed by call                                 *)
(*   mem - the buffers, tr - the trace.                                    *)
(* bind[n + 1] names the buffer operand %n points into.                    *)
(***************************************************************************)
AsmInit(o, mem) ==
    [pc |-> 1, x |-> << Zero16, Zero16, Zero16, Zero16, Zero16, Zero16 >>,
     o |-> o, zf |-> FALSE, ra |-> << >>, mem |-> mem, tr |-> << >>]

SetReg(s, r, v) == [s EXCEPT !.pc = @ + 1, !.x[r + 1] = v]

\* movdqu / movq from memory: n bytes, the rest of the register zeroed
AsmLoad(s, b, off, n, r) ==
    [s EXCEPT !.pc = @ + 1,
              !.x[r + 1] = ReadBytes(s.mem[b], off, n) \o SubSeq(Zero16, 1, 16 - n),
              !.tr = Append(@, << "ld", b, off, n >>)]

\* a store that always writes the whole register
AsmStore_full(s, r, n, b, off) ==
    [s EXCEPT !.pc = @ + 1,
              !.mem[b] = WriteBytes(@, off, s.x[r + 1]),
              !.tr = Append(@, << "st", b, off, 16 >>)]

\* movdqu / movq to memory: the low n bytes of the register
AsmStore(s, r, n, b, off) ==
    [s EXCEPT !.pc = @ + 1,
              !.mem[b] = WriteBytes(@, off, SubSeq(s.x[r + 1], 1, n)),
              !.tr = Append(@, << "st", b, off, n >>)]

\* local labels: "f" is the next definition of label n, "b" the previous
Target(prog, n, dir, pc) ==
    IF dir = "f"
    THEN CHOOSE i \in pc..Len(prog) :
             prog[i] = << "label", n >> /\ \A j \in pc..(i - 1) : prog[j] # << "label", n >>
    ELSE CHOOSE i \in 1..pc :
             prog[i] = << "label", n >> /\ \A j \in (i + 1)..pc : prog[j] # << "label", n >>

\* a conditional jump that also looks at the low bit of the data in xmm0
AsmJcc_onData(prog, s, taken, n, dir) ==
    [s EXCEPT !.pc = IF taken /\ s.x[1][1] % 2 = 0
                     THEN Target(prog, n, dir, s.pc) ELSE @ + 1,
              !.tr = Append(@, << "br", s.pc, taken /\ s.x[1][1] % 2 = 0 >>)]

AsmJcc(prog, s, taken, n, dir) ==
    [s EXCEPT !.pc = IF taken THEN Target(prog, n, dir, s.pc) ELSE @ + 1,
              !.tr = Append(@, << "br", s.pc, taken >>)]

\* one instruction; operands in the order of the source (source first)
Step(prog, bind, s, ins) ==
    CASE ins[1] = "label" -> [s EXCEPT !.pc = @ + 1]
      \* movdqu disp(%opnd), %%xmmR  as << "movdqu_ld", disp, opnd, R >>
      [] ins[1] = "movdqu_ld" ->
            AsmLoad(s, bind[ins[3] + 1], s.o[ins[3] + 1] + ins[2], 16, ins[4])
      [] ins[1] = "movq_ld" ->
            AsmLoad(s, bind[ins[3] + 1], s.o[ins[3] + 1] + ins[2], 8, ins[4])
      \* movdqu %%xmmR, (%opnd)  as << "movdqu_st", R, opnd >>
      [] ins[1] = "movdqu_st" ->
            AsmStore(s, ins[2], 16, bind[ins[3] + 1], s.o[ins[3] + 1])
      [] ins[1] = "movq_st" ->
            AsmStore(s, ins[2], 8, bind[ins[3] + 1], s.o[ins[3] + 1])
      \* add $imm, %opnd
      [] ins[1] = "add" ->
            [s EXCEPT !.pc = @ + 1, !.o[ins[3] + 1] = @ + ins[2]]
      \* subl $imm, %opnd: sets the zero flag
      [] ins[1] = "subl" ->
            [s EXCEPT !.pc = @ + 1, !.o[ins[3] + 1] = @ - ins[2],
                      !.zf = (s.o[ins[3] + 1] - ins[2] = 0)]
      \* test %a, %a: the zero flag is set iff the operand is 0
      [] ins[1] = "test" ->
            [s EXCEPT !.pc = @ + 1, !.zf = (s.o[ins[2] + 1] = 0)]
      [] ins[1] = "jz"  -> AsmJcc(prog, s, s.zf, ins[2], ins[3])
      [] ins[1] = "jnz" -> AsmJcc(prog, s, ~s.zf, ins[2], ins[3])
      [] ins[1] = "jmp" -> [s EXCEPT !.pc = Target(prog, ins[2], ins[3], s.pc)]
      [] ins[1] = "call" ->
            [s EXCEPT !.pc = Target(prog, ins[2], ins[3], s.pc),
                      !.ra = << s.pc + 1 >> \o @]
      [] ins[1] = "ret" -> [s EXCEPT !.pc = Head(s.ra), !.ra = Tail(@)]
      \* register to register, << op, src, dst >>
      [] ins[1] = "movdqa" -> SetReg(s, ins[3], s.x[ins[2] + 1])
      [] ins[1] = "pxor" -> SetReg(s, ins[3], pxor(s.x[ins[3] + 1], s.x[ins[2] + 1]))
      [] ins[1] = "por" -> SetReg(s, ins[3], por(s.x[ins[3] + 1], s.x[ins[2] + 1]))
      \* shifts, << op, imm, reg >>
      [] ins[1] = "pslldq" -> SetReg(s, ins[3], pslldq(s.x[ins[3] + 1], ins[2]))
      [] ins[1] = "psrldq" -> SetReg(s, ins[3], psrldq(s.x[ins[3] + 1], ins[2]))
      [] ins[1] = "psllq" -> SetReg(s, ins[3], psllq(s.x[ins[3] + 1], ins[2]))
      [] ins[1] = "psrlq" -> SetReg(s, ins[3], psrlq(s.x[ins[3] + 1], ins[2]))
      \* pshufd $imm, %%xmmS, %%xmmD  as << "pshufd", imm, S, D >>
      [] ins[1] = "pshufd" -> SetReg(s, ins[4], pshufd(s.x[ins[3] + 1], ins[2]))
      \* the opcode macros: OP xmmS_xmmD  as << "OP", S, D >>
      [] ins[1] = "AESENC" ->
            SetReg(s, ins[3], AESENC(s.x[ins[3] + 1], s.x[ins[2] + 1]))
      [] ins[1] = "AESENCLAST" ->
            SetReg(s, ins[3], AESENCLAST(s.x[ins[3] + 1], s.x[ins[2] + 1]))
      [] ins[1] = "AESDEC" ->
            SetReg(s, ins[3], AESDEC(s.x[ins[3] + 1], s.x[ins[2] + 1]))
      [] ins[1] = "AESDECLAST" ->
            SetReg(s, ins[3], AESDECLAST(s.x[ins[3] + 1], s.x[ins[2] + 1]))
      [] ins[1] = "AESIMC" -> SetReg(s, ins[3], AESIMC(s.x[ins[2] + 1]))
      \* OP xmmS_xmmD ",imm"  as << "OP", S, D, imm >>
      [] ins[1] = "AESKEYGENA" ->
            SetReg(s, ins[3], AESKEYGENA(s.x[ins[2] + 1], ins[4]))
      [] ins[1] = "PCLMULQDQ" ->
            SetReg(s, ins[3], PCLMULQDQ(s.x[ins[2] + 1], s.x[ins[3] + 1], ins[4]))

\* runs up to n instructions
RECURSIVE Run(_, _, _, _)
Run(prog, bind, s, n) ==
    After(s, IF n = 0 \/ s.pc > Len(prog) THEN s
             ELSE Run(prog, bind, Step(prog, bind, s, prog[s.pc]), n - 1))

\* runs the block until control falls off its end
RECURSIVE Exec(_, _, _)
Exec(prog, bind, s) ==
    After(s, IF s.pc > Len(prog) THEN s
             ELSE Exec(prog, bind, Run(prog, bind, s, 16)))

(***************************************************************************)
(* Key expansion, assembly variants.                                       *)
(***************************************************************************)
aesni_setkey_enc_128_prog ==
    << << "movdqu_ld", 0, 1, 0 >>,
       << "movdqu_st", 0, 0 >>,
       << "jmp", 2, "f" >>,
       << "label", 1 >>,
       << "pshufd", 255, 1, 1 >>,
       << "pxor", 0, 1 >>,
       << "pslldq", 4, 0 >>,
       << "pxor", 0, 1 >>,
       << "pslldq", 4, 0 >>,
       << "pxor", 0, 1 >>,
       << "pslldq", 4, 0 >>,
       << "pxor", 1, 0 >>,
       << "add", 16, 0 >>,
       << "movdqu_st", 0, 0 >>,
       << "ret" >>,
       << "label", 2 >>,
       << "AESKEYGENA", 0, 1, 1 >>,   << "call", 1, "b" >>,
       << "AESKEYGENA", 0, 1, 2 >>,   << "call", 1, "b" >>,
       << "AESKEYGENA", 0, 1, 4 >>,   << "call", 1, "b" >>,
       << "AESKEYGENA", 0, 1, 8 >>,   << "call", 1, "b" >>,
       << "AESKEYGENA", 0, 1, 16 >>,  << "call", 1, "b" >>,
       << "AESKEYGENA", 0, 1, 32 >>,  << "call", 1, "b" >>,
       << "AESKEYGENA", 0, 1, 64 >>,  << "call", 1, "b" >>,
       << "AESKEYGENA", 0, 1, 128 >>, << "call", 1, "b" >>,
       << "AESKEYGENA", 0, 1, 27 >>,  << "call", 1, "b" >>,
       << "AESKEYGENA", 0, 1, 54 >>,  << "call", 1, "b" >> >>

aesni_setkey_enc_192_prog ==
    << << "movdqu_ld", 0, 1, 0 >>,
       << "movdqu_st", 0, 0 >>,
       << "add", 16, 0 >>,
       << "movq_ld", 16, 1, 1 >>,
       << "movq_st", 1, 0 >>,
       << "add", 8, 0 >>,
       << "jmp", 2, "f" >>,
       << "label", 1 >>,
       << "pshufd", 85, 2, 2 >>,
       << "pxor", 0, 2 >>,
       << "pslldq", 4, 0 >>,
       << "pxor", 0, 2 >>,
       << "pslldq", 4, 0 >>,
       << "pxor", 0, 2 >>,
       << "pslldq", 4, 0 >>,
       << "pxor", 2, 0 >>,
       << "movdqu_st", 0, 0 >>,
       << "add", 16, 0 >>,
       << "pshufd", 255, 0, 2 >>,
       << "pxor", 1, 2 >>,
       << "pslldq", 4, 1 >>,
       << "pxor", 2, 1 >>,
       << "movq_st", 1, 0 >>,
       << "add", 8, 0 >>,
       << "ret" >>,
       << "label", 2 >>,
       << "AESKEYGENA", 1, 2, 1 >>,   << "call", 1, "b" >>,
       << "AESKEYGENA", 1, 2, 2 >>,   << "call", 1, "b" >>,
       << "AESKEYGENA", 1, 2, 4 >>,   << "call", 1, "b" >>,
       << "AESKEYGENA", 1, 2, 8 >>,   << "call", 1, "b" >>,
       << "AESKEYGENA", 1, 2, 16 >>,  << "call", 1, "b" >>,
       << "AESKEYGENA", 1, 2, 32 >>,  << "call", 1, "b" >>,
       << "AESKEYGENA", 1, 2, 64 >>,  << "call", 1, "b" >>,
       << "AESKEYGENA", 1, 2, 128 >>, << "call", 1, "b" >> >>

aesni_setkey_enc_256_prog ==
    << << "movdqu_ld", 0, 1, 0 >>,
       << "movdqu_st", 0, 0 >>,
       << "add", 16, 0 >>,
       << "movdqu_ld", 16, 1, 1 >>,
       << "movdqu_st", 1, 0 >>,
       << "jmp", 2, "f" >>,
       << "label", 1 >>,
       << "pshufd", 255, 2, 2 >>,
       << "pxor", 0, 2 >>,
       << "pslldq", 4, 0 >>,
       << "pxor", 0, 2 >>,
       << "pslldq", 4, 0 >>,
       << "pxor", 0, 2 >>,
       << "pslldq", 4, 0 >>,
       << "pxor", 2, 0 >>,
       << "add", 16, 0 >>,
       << "movdqu_st", 0, 0 >>,
       << "AESKEYGENA", 0, 2, 0 >>,
       << "pshufd", 170, 2, 2 >>,
       << "pxor", 1, 2 >>,
       << "pslldq", 4, 1 >>,
       << "pxor", 1, 2 >>,
       << "pslldq", 4, 1 >>,
       << "pxor", 1, 2 >>,
       << "pslldq", 4, 1 >>,
       << "pxor", 2, 1 >>,
       << "add", 16, 0 >>,
       << "movdqu_st", 1, 0 >>,
       << "ret" >>,
       << "label", 2 >>,
       << "AESKEYGENA", 1, 2, 1 >>,  << "call", 1, "b" >>,
       << "AESKEYGENA", 1, 2, 2 >>,  << "call", 1, "b" >>,
       << "AESKEYGENA", 1, 2, 4 >>,  << "call", 1, "b" >>,
       << "AESKEYGENA", 1, 2, 8 >>,  << "call", 1, "b" >>,
       << "AESKEYGENA", 1, 2, 16 >>, << "call", 1, "b" >>,
       << "AESKEYGENA", 1, 2, 32 >>, << "call", 1, "b" >>,
       << "AESKEYGENA", 1, 2, 64 >>, << "call", 1, "b" >> >>

\* every variant of a routine returns [mem |-> buffers afterwards, tr |-> trace]
Outcome(s) == [mem |-> s.mem, tr |-> s.tr]

aesni_setkey_enc_128_asm(rk, key) ==
    Outcome(Exec(aesni_setkey_enc_128_prog, << "rk", "key" >>,
                 AsmInit(<< 0, 0 >>, [rk |-> rk, key |-> key])))

aesni_setkey_enc_192_asm(rk, key) ==
    Outcome(Exec(aesni_setkey_enc_192_prog, << "rk", "key" >>,
                 AsmInit(<< 0, 0 >>, [rk |-> rk, key |-> key])))

aesni_setkey_enc_256_asm(rk, key) ==
    Outcome(Exec(aesni_setkey_enc_256_prog, << "rk", "key" >>,
                 AsmInit(<< 0, 0 >>, [rk |-> rk, key |-> key])))

(***************************************************************************)
(* Key expansion, intrinsics variants.  The state of the C function is a   *)
(* record of its local variables together with mem and tr.                 *)
(***************************************************************************)
\* _mm_storeu_si128( (__m128i*)(b + off), v )
\* a store that touches the 16 bytes after its operand as well
mm_storeu_si128_wide(c, b, off, v) ==
    [c EXCEPT !.mem[b] = WriteBytes(@, off, v), !.tr = Append(@, << "st", b, off, 32 >>)]

mm_storeu_si128(c, b, off, v) ==
    [c EXCEPT !.mem[b] = WriteBytes(@, off, v), !.tr = Append(@, << "st", b, off, 16 >>)]

\* temp3 is temp1 << 32, << 64, << 96 in turn, XORed into temp1 each time;
\* then the broadcast dword 3 of kg is XORed in
aes_key_128_assist(temp1, kg) ==
    pxor(pxor(pxor(pxor(temp1, pslldq(temp1, 4)),
                   pslldq(pslldq(temp1, 4), 4)),
              pslldq(pslldq(pslldq(temp1, 4), 4), 4)),
         pshufd(kg, 255))

\* EXPAND_ROUND( index, rcon ) of aesni_setkey_enc_128
EXPAND_ROUND_128(c, index, rcon) ==
    After(c, [mm_storeu_si128(c, "rk", 16 * index, c.temp) EXCEPT
                 !.temp = aes_key_128_assist(c.temp, AESKEYGENA(c.temp, rcon))])

\* the last statement: _mm_storeu_si128( (__m128i*)rk + 10, temp )
setkey_enc_128_last(c) == mm_storeu_si128(c, "rk", 16 * 10, c.temp)

aesni_setkey_enc_128_intrin(rk, key) ==
    Outcome(setkey_enc_128_last(
        EXPAND_ROUND_128(EXPAND_ROUND_128(EXPAND_ROUND_128(EXPAND_ROUND_128(
        EXPAND_ROUND_128(EXPAND_ROUND_128(EXPAND_ROUND_128(EXPAND_ROUND_128(
        EXPAND_ROUND_128(EXPAND_ROUND_128(
            [temp |-> ReadBytes(key, 0, 16), mem |-> [rk |-> rk, key |-> key],
             tr |-> << << "ld", "key", 0, 16 >> >>],
            0, 1), 1, 2), 2, 4), 3, 8), 4, 16), 5, 32), 6, 64), 7, 128), 8, 27), 9, 54)))

\* the new *temp1 of aes_key_192_assist
aes_key_192_assist_temp1(temp1, kg) ==
    pxor(pxor(pxor(pxor(temp1, pslldq(temp1, 4)),
                   pslldq(pslldq(temp1, 4), 4)),
              pslldq(pslldq(pslldq(temp1, 4), 4), 4)),
         pshufd(kg, 85))

\* the new *temp3 of aes_key_192_assist, from the new *temp1
aes_key_192_assist_temp3(temp1, temp3) ==
    pxor(pxor(temp3, pslldq(temp3, 4)), pshufd(temp1, 255))

\* aes_key_192_assist( &temp1, &temp3, kg ) on the locals of the caller
aes_key_192_assist(c, kg) ==
    [c EXCEPT !.temp1 = aes_key_192_assist_temp1(c.temp1, kg),
              !.temp3 = aes_key_192_assist_temp3(
                            aes_key_192_assist_temp1(c.temp1, kg), c.temp3)]

\* EXPAND_ROUND( index, rcon1, rcon2 ) of aesni_setkey_enc_192, first three
\* statements: store temp1, temp2 = temp3, assist with rcon1
EXPAND_ROUND_192_head(c, index, rcon1) ==
    After(c, aes_key_192_assist(
                 [mm_storeu_si128(c, "rk", 16 * (index + 0), c.temp1)
                      EXCEPT !.temp2 = c.temp3],
                 AESKEYGENA(c.temp3, rcon1)))

\* ... the two stores of the shuffled halves
EXPAND_ROUND_192_stores(c, index) ==
    After(c, mm_storeu_si128(
                 mm_storeu_si128(c, "rk", 16 * (index + 1),
                                 mm_shuffle_epi64(c.temp2, c.temp1, 0)),
                 "rk", 16 * (index + 2), mm_shuffle_epi64(c.temp1, c.temp3, 1)))

\* ... and the assist with rcon2
EXPAND_ROUND_192_tail(c, rcon2) ==
    After(c, aes_key_192_assist(c, AESKEYGENA(c.temp3, rcon2)))

EXPAND_ROUND_192(c, index, rcon1, rcon2) ==
    EXPAND_ROUND_192_tail(
        EXPAND_ROUND_192_stores(EXPAND_ROUND_192_head(c, index, rcon1), index),
        rcon2)

\* the last statement: _mm_storeu_si128( key_schedule + 12, temp1 )
setkey_enc_192_last(c) == mm_storeu_si128(c, "rk", 16 * 12, c.temp1)

\* temp3 is loaded as 16 bytes from key + 16: 8 bytes of key and the 8 bytes
\* that follow the 24-byte key in memory
aesni_setkey_enc_192_intrin(rk, key) ==
    Outcome(setkey_enc_192_last(
        EXPAND_ROUND_192(EXPAND_ROUND_192(EXPAND_ROUND_192(EXPAND_ROUND_192(
            [temp1 |-> ReadBytes(key, 0, 16), temp2 |-> Zero16,
             temp3 |-> ReadBytes(key, 16, 16),
             mem |-> [rk |-> rk, key |-> key],
             tr |-> << << "ld", "key", 0, 16 >>, << "ld", "key", 16, 16 >> >>],
            0, 1, 2), 3, 4, 8), 6, 16, 32), 9, 64, 128)))

aes_key_256_assist_1(temp1, kg) ==
    pxor(pxor(pxor(pxor(temp1, pslldq(temp1, 4)),
                   pslldq(pslldq(temp1, 4), 4)),
              pslldq(pslldq(pslldq(temp1, 4), 4), 4)),
         pshufd(kg, 255))

\* temp2 = dword 2 of AESKEYGENASSIST( temp1, 0 ), broadcast
aes_key_256_assist_2(temp1, temp3) ==
    pxor(pxor(pxor(pxor(temp3, pslldq(temp3, 4)),
                   pslldq(pslldq(temp3, 4), 4)),
              pslldq(pslldq(pslldq(temp3, 4), 4), 4)),
         pshufd(AESKEYGENA(temp1, 0), 170))

\* the temp1 computed by EXPAND_ROUND1 is stored and kept
EXPAND_ROUND1_store(c, index, temp1) ==
    [mm_storeu_si128(c, "rk", 16 * index, temp1) EXCEPT !.temp1 = temp1]

EXPAND_ROUND1(c, index, rcon) ==
    After(c, EXPAND_ROUND1_store(c, index,
                 aes_key_256_assist_1(c.temp1, AESKEYGENA(c.temp3, rcon))))

\* the temp3 computed by EXPAND_ROUND2 is stored and kept
EXPAND_ROUND2_store(c, index, temp3) ==
    [mm_storeu_si128(c, "rk", 16 * index, temp3) EXCEPT !.temp3 = temp3]

EXPAND_ROUND2(c, index) ==
    After(c, EXPAND_ROUND2_store(c, index, aes_key_256_assist_2(c.temp1, c.temp3)))

\* the two loads and the stores of key_schedule + 0 and + 1
setkey_enc_256_first(rk, key) ==
    mm_storeu_si128(
        mm_storeu_si128(
            [temp1 |-> ReadBytes(key, 0, 16), temp3 |-> ReadBytes(key, 16, 16),
             mem |-> [rk |-> rk, key |-> key],
             tr |-> << << "ld", "key", 0, 16 >>, << "ld", "key", 16, 16 >> >>],
            "rk", 16 * 0, ReadBytes(key, 0, 16)),
        "rk", 16 * 1, ReadBytes(key, 16, 16))

aesni_setkey_enc_256_intrin(rk, key) ==
    Outcome(
        EXPAND_ROUND1(
        EXPAND_ROUND2(EXPAND_ROUND1(EXPAND_ROUND2(EXPAND_ROUND1(
        EXPAND_ROUND2(EXPAND_ROUND1(EXPAND_ROUND2(EXPAND_ROUND1(
        EXPAND_ROUND2(EXPAND_ROUND1(EXPAND_ROUND2(EXPAND_ROUND1(
            setkey_enc_256_first(rk, key),
            2, 1), 3), 4, 2), 5), 6, 4), 7), 8, 8), 9), 10, 16), 11), 12, 32), 13),
            14, 64))

(***************************************************************************)
(* Key expansion, wrapper.  bld is the build: "asm" or "intrin".           *)
(***************************************************************************)
aesni_setkey_enc_128(bld, rk, key) ==
    IF bld = "intrin" THEN aesni_setkey_enc_128_intrin(rk, key)
    ELSE aesni_setkey_enc_128_asm(rk, key)

aesni_setkey_enc_192(bld, rk, key) ==
    IF bld = "intrin" THEN aesni_setkey_enc_192_intrin(rk, key)
    ELSE aesni_setkey_enc_192_asm(rk, key)

aesni_setkey_enc_256(bld, rk, key) ==
    IF bld = "intrin" THEN aesni_setkey_enc_256_intrin(rk, key)
    ELSE aesni_setkey_enc_256_asm(rk, key)

MBEDTLS_ERR_AES_INVALID_KEY_LENGTH == -32

\* a routine's outcome together with its return value
Returned(ret, r) == [ret |-> ret, mem |-> r.mem, tr |-> r.tr]

\* the wrapper without its default case: other sizes fall out of the switch
mbedtls_aesni_setkey_enc_noDefault(bld, rk, key, bits) ==
    CASE bits = 128 -> Returned(0, aesni_setkey_enc_128(bld, rk, key))
      [] bits = 192 -> Returned(0, aesni_setkey_enc_192(bld, rk, key))
      [] bits = 256 -> Returned(0, aesni_setkey_enc_256(bld, rk, key))
      [] OTHER -> [ret |-> 0, mem |-> [rk |-> rk, key |-> key], tr |-> << >>]

mbedtls_aesni_setkey_enc(bld, rk, key, bits) ==
    CASE bits = 128 -> Returned(0, aesni_setkey_enc_128(bld, rk, key))
      [] bits = 192 -> Returned(0, aesni_setkey_enc_192(bld, rk, key))
      [] bits = 256 -> Returned(0, aesni_setkey_enc_256(bld, rk, key))
      [] OTHER -> [ret |-> MBEDTLS_ERR_AES_INVALID_KEY_LENGTH,
                   mem |-> [rk |-> rk, key |-> key], tr |-> << >>]

(***************************************************************************)
(* Decryption round keys from encryption round keys.                       *)
(***************************************************************************)
\* memcpy( ik, fk, 16 )
inverse_key_memcpy(c) ==
    [c EXCEPT !.mem.invkey = WriteBytes(@, c.ik, ReadBytes(c.mem.fwdkey, c.fk, 16)),
              !.tr = @ \o << << "ld", "fwdkey", c.fk, 16 >>, << "st", "invkey", c.ik, 16 >> >>]

inverse_key_prog ==
    << << "movdqu_ld", 0, 0, 0 >>,
       << "AESIMC", 0, 0 >>,
       << "movdqu_st", 0, 1 >> >>

\* the loop body, assembly: operands are fk and ik
inverse_key_body_asm(c) ==
    Exec(inverse_key_prog, << "fwdkey", "invkey" >>,
         [AsmInit(<< c.fk, c.ik >>, c.mem) EXCEPT !.tr = c.tr])

\* the loop body, intrinsics
inverse_key_body_intrin(c) ==
    mm_storeu_si128([c EXCEPT !.tr = Append(@, << "ld", "fwdkey", c.fk, 16 >>)],
                    "invkey", c.ik, AESIMC(ReadBytes(c.mem.fwdkey, c.fk, 16)))

\* the locals after the body ran and after fk -= 16, ik += 16
inverse_key_next(c, r) ==
    [fk |-> c.fk - 16, ik |-> c.ik + 16, mem |-> r.mem, tr |-> r.tr]

\* for( ...; fk > fwdkey; fk -= 16, ik += 16 ) body
RECURSIVE inverse_key_loop(_, _)
inverse_key_loop(bld, c) ==
    After(c, IF c.fk > 0
             THEN inverse_key_loop(bld, inverse_key_next(c,
                      IF bld = "intrin" THEN inverse_key_body_intrin(c)
                      ELSE inverse_key_body_asm(c)))
             ELSE c)

\* the loop's initialisation fk -= 16, ik += 16
inverse_key_enter(c) == [c EXCEPT !.fk = @ - 16, !.ik = @ + 16]

mbedtls_aesni_inverse_key(bld, invkey, fwdkey, nr) ==
    Outcome(inverse_key_memcpy(inverse_key_loop(bld, inverse_key_enter(
        inverse_key_memcpy([fk |-> 16 * nr, ik |-> 0,
                            mem |-> [invkey |-> invkey, fwdkey |-> fwdkey],
                            tr |-> << >>])))))

(***************************************************************************)
(* AES-ECB block en(de)cryption.                                           *)
(***************************************************************************)
MBEDTLS_AES_ENCRYPT == 1
MBEDTLS_AES_DECRYPT == 0

\* operands: %0 = ctx->nr, %1 = ctx->rk, %2 = mode, %3 = input, %4 = output
crypt_ecb_prog ==
    << << "movdqu_ld", 0, 3, 0 >>,
       << "movdqu_ld", 0, 1, 1 >>,
       << "pxor", 1, 0 >>,
       << "add", 16, 1 >>,
       << "subl", 1, 0 >>,
       << "test", 2, 2 >>,
       << "jz", 2, "f" >>,
       << "label", 1 >>,
       << "movdqu_ld", 0, 1, 1 >>,
       << "AESENC", 1, 0 >>,
       << "add", 16, 1 >>,
       << "subl", 1, 0 >>,
       << "jnz", 1, "b" >>,
       << "movdqu_ld", 0, 1, 1 >>,
       << "AESENCLAST", 1, 0 >>,
       << "jmp", 3, "f" >>,
       << "label", 2 >>,
       << "movdqu_ld", 0, 1, 1 >>,
       << "AESDEC", 1, 0 >>,
       << "add", 16, 1 >>,
       << "subl", 1, 0 >>,
       << "jnz", 2, "b" >>,
       << "movdqu_ld", 0, 1, 1 >>,
       << "AESDECLAST", 1, 0 >>,
       << "label", 3 >>,
       << "movdqu_st", 0, 4 >> >>

crypt_ecb_asm(nr, rk, mode, input, output) ==
    Outcome(Exec(crypt_ecb_prog, << "nr", "rk", "mode", "input", "output" >>,
                 AsmInit(<< nr, 0, mode, 0, 0 >>,
                         [rk |-> rk, input |-> input, output |-> output])))

\* a round key load that never advances rk
crypt_ecb_load_rk_stay(c, inc) ==
    [c EXCEPT !.tr = Append(@, << "ld", "rk", c.rk, 16 >>)]

\* _mm_loadu_si128( rk ) followed, when inc = 1, by rk++
crypt_ecb_load_rk(c, inc) ==
    [c EXCEPT !.rk = @ + 16 * inc, !.tr = Append(@, << "ld", "rk", c.rk, 16 >>)]

\* a = _mm_xor_si128( _mm_loadu_si128( input ), _mm_loadu_si128( rk++ ) )
crypt_ecb_round0(rk, input, output) ==
    crypt_ecb_load_rk(
        [rk |-> 0, i |-> 0, a |-> pxor(ReadBytes(input, 0, 16), ReadBytes(rk, 0, 16)),
         mem |-> [rk |-> rk, input |-> input, output |-> output],
         tr |-> << << "ld", "input", 0, 16 >> >>], 1)

\* for (i = ctx->nr - 1; i; --i) a = round( a, _mm_loadu_si128( rk++ ) ),
\* from the test of i on
RECURSIVE crypt_ecb_for(_, _)
crypt_ecb_for(enc, c) ==
    After(c, IF c.i # 0
             THEN crypt_ecb_for(enc,
                      [crypt_ecb_load_rk(
                           [c EXCEPT !.tr = Append(@, << "br", "for", TRUE >>)], 1) EXCEPT
                          !.a = IF enc THEN AESENC(c.a, ReadBytes(c.mem.rk, c.rk, 16))
                                ELSE AESDEC(c.a, ReadBytes(c.mem.rk, c.rk, 16)),
                          !.i = @ - 1])
             ELSE [c EXCEPT !.tr = Append(@, << "br", "for", FALSE >>)])

\* a = last round( a, _mm_loadu_si128( rk ) )
crypt_ecb_last(enc, c) ==
    [crypt_ecb_load_rk(c, 0) EXCEPT
        !.a = IF enc THEN AESENCLAST(c.a, ReadBytes(c.mem.rk, c.rk, 16))
              ELSE AESDECLAST(c.a, ReadBytes(c.mem.rk, c.rk, 16))]

\* if (mode == MBEDTLS_AES_ENCRYPT) { ... } else { ... }
crypt_ecb_if(nr, mode, c) ==
    crypt_ecb_last(mode = MBEDTLS_AES_ENCRYPT,
        crypt_ecb_for(mode = MBEDTLS_AES_ENCRYPT,
            [c EXCEPT !.i = nr - 1,
                      !.tr = Append(@, << "br", "if", mode = MBEDTLS_AES_ENCRYPT >>)]))

\* _mm_storeu_si128( (__m128i*)output, a )
crypt_ecb_store(c) == mm_storeu_si128(c, "output", 0, c.a)

crypt_ecb_intrin(nr, rk, mode, input, output) ==
    Outcome(crypt_ecb_store(
        crypt_ecb_if(nr, mode, crypt_ecb_round0(rk, input, output))))

mbedtls_aesni_crypt_ecb(bld, nr, rk, mode, input, output) ==
    Returned(0, IF bld = "intrin" THEN crypt_ecb_intrin(nr, rk, mode, input, output)
                ELSE crypt_ecb_asm(nr, rk, mode, input, output))

(***************************************************************************)
(* GCM multiplication: c = a times b in GF(2^128).  c, a and b name        *)
(* buffers of mem; the same name may be passed twice.                      *)
(***************************************************************************)
\* c = a0*b0, d = a1*b1, e = a0*b1, f = a1*b0 combined into r0 (low) and r1
clmul256_combine(c, d, ef) == << pxor(c, pslldq(ef, 8)), pxor(d, psrldq(ef, 8)) >>

\* _mm_clmulepi64_si128( a, b, imm ): bit 0 of imm picks the lane of a,
\* bit 4 the lane of b; << r0, r1 >> are the two output parameters
clmul256(a, b) ==
    clmul256_combine(PCLMULQDQ(b, a, 0), PCLMULQDQ(b, a, 17),
                     pxor(PCLMULQDQ(b, a, 16), PCLMULQDQ(b, a, 1)))

\* << s0, s1 >> = a1:a0 shifted left by one bit
sll256(a0, a1) ==
    << por(psllq(a0, 1), pslldq(psrlq(a0, 63), 8)),
       por(por(psllq(a1, 1), psrldq(psrlq(a0, 63), 8)), pslldq(psrlq(a1, 63), 8)) >>

\* steps (1) and (2): d:x0 = [x1:x0] ^ [a^b^c:0]
reducemod128_dx0(x10) ==
    pxor(x10, pslldq(pxor(pxor(psllq(x10, 63), psllq(x10, 62)), psllq(x10, 57)), 8))

\* steps (3) and (4): h = dx0 ^ e ^ f ^ g, the right shifts of dx0 by 1, 2, 7
reducemod128_h(dx0) ==
    pxor(dx0,
         pxor(por(psrlq(dx0, 1), psrldq(psllq(dx0, 63), 8)),
              pxor(por(psrlq(dx0, 2), psrldq(psllq(dx0, 62), 8)),
                   por(psrlq(dx0, 7), psrldq(psllq(dx0, 57), 8)))))

reducemod128(x10, x32) == pxor(x32, reducemod128_h(reducemod128_dx0(x10)))

\* _byteswap_uint64 of a 64-bit value held as 8 bytes
byteswap_uint64(q) == << q[8], q[7], q[6], q[5], q[4], q[3], q[2], q[1] >>

\* xa.m128i_u64[1] = swap( first 8 bytes ); xa.m128i_u64[0] = swap( last 8 )
gcm_mult_load(buf) ==
    byteswap_uint64(ReadBytes(buf, 8, 8)) \o byteswap_uint64(ReadBytes(buf, 0, 8))

\* sll256( m0, m1, &x10, &x32 ) on the pair from clmul256
gcm_mult_sll(m) == sll256(m[1], m[2])

\* r = reducemod128( x10, x32 ) on the pair from sll256
gcm_mult_reduce(x) == reducemod128(x[1], x[2])

\* the two 64-bit stores to c, from r
gcm_mult_store(mem, c, r, tr) ==
    [mem |-> [mem EXCEPT ![c] = byteswap_uint64(Lane(r, 1)) \o byteswap_uint64(Lane(r, 0))],
     tr |-> tr \o << << "st", c, 0, 8 >>, << "st", c, 8, 8 >> >>]

\* a variant that clears c after reading a and before reading b
gcm_mult_intrin_early(mem, c, a, b) ==
    gcm_mult_store(mem, c,
        gcm_mult_reduce(gcm_mult_sll(
            clmul256(gcm_mult_load(mem[a]),
                     gcm_mult_load([mem EXCEPT ![c] = Zero16][b])))),
        << << "ld", a, 0, 8 >>, << "ld", a, 8, 8 >>, << "st", c, 0, 16 >>,
           << "ld", b, 0, 8 >>, << "ld", b, 8, 8 >> >>)

gcm_mult_intrin(mem, c, a, b) ==
    gcm_mult_store(mem, c,
        gcm_mult_reduce(gcm_mult_sll(
            clmul256(gcm_mult_load(mem[a]), gcm_mult_load(mem[b])))),
        << << "ld", a, 0, 8 >>, << "ld", a, 8, 8 >>, << "ld", b, 0, 8 >>, << "ld", b, 8, 8 >> >>)

\* operands: %0 = aa, %1 = bb, %2 = cc
gcm_mult_prog ==
    << << "movdqu_ld", 0, 0, 0 >>,
       << "movdqu_ld", 0, 1, 1 >>,
       << "movdqa", 1, 2 >>,
       << "movdqa", 1, 3 >>,
       << "movdqa", 1, 4 >>,
       << "PCLMULQDQ", 0, 1, 0 >>,
       << "PCLMULQDQ", 0, 2, 17 >>,
       << "PCLMULQDQ", 0, 3, 16 >>,
       << "PCLMULQDQ", 0, 4, 1 >>,
       << "pxor", 3, 4 >>,
       << "movdqa", 4, 3 >>,
       << "psrldq", 8, 4 >>,
       << "pslldq", 8, 3 >>,
       << "pxor", 4, 2 >>,
       << "pxor", 3, 1 >>,
       << "movdqa", 1, 3 >>,
       << "movdqa", 2, 4 >>,
       << "psllq", 1, 1 >>,
       << "psllq", 1, 2 >>,
       << "psrlq", 63, 3 >>,
       << "psrlq", 63, 4 >>,
       << "movdqa", 3, 5 >>,
       << "pslldq", 8, 3 >>,
       << "pslldq", 8, 4 >>,
       << "psrldq", 8, 5 >>,
       << "por", 3, 1 >>,
       << "por", 4, 2 >>,
       << "por", 5, 2 >>,
       << "movdqa", 1, 3 >>,
       << "movdqa", 1, 4 >>,
       << "movdqa", 1, 5 >>,
       << "psllq", 63, 3 >>,
       << "psllq", 62, 4 >>,
       << "psllq", 57, 5 >>,
       << "pxor", 4, 3 >>,
       << "pxor", 5, 3 >>,
       << "pslldq", 8, 3 >>,
       << "pxor", 3, 1 >>,
       << "movdqa", 1, 0 >>,
       << "movdqa", 1, 4 >>,
       << "movdqa", 1, 5 >>,
       << "psrlq", 1, 0 >>,
       << "psrlq", 2, 4 >>,
       << "psrlq", 7, 5 >>,
       << "pxor", 4, 0 >>,
       << "pxor", 5, 0 >>,
       << "movdqa", 1, 3 >>,
       << "movdqa", 1, 4 >>,
       << "movdqa", 1, 5 >>,
       << "psllq", 63, 3 >>,
       << "psllq", 62, 4 >>,
       << "psllq", 57, 5 >>,
       << "pxor", 4, 3 >>,
       << "pxor", 5, 3 >>,
       << "psrldq", 8, 3 >>,
       << "pxor", 3, 0 >>,
       << "pxor", 1, 0 >>,
       << "pxor", 2, 0 >>,
       << "movdqu_st", 0, 2 >> >>

\* the caller's buffers and the locals aa, bb, cc
gcm_mult_frame(mem) ==
    [n \in DOMAIN mem \cup {"aa", "bb", "cc"} |->
        IF n \in DOMAIN mem THEN mem[n] ELSE Zero16]

\* for( i = 0; i < 16; i++ ) { aa[i] = a[15 - i]; bb[i] = b[15 - i]; }
RECURSIVE gcm_mult_reverse_in(_, _, _, _)
gcm_mult_reverse_in(g, a, b, i) ==
    After(g, IF i < 16
             THEN gcm_mult_reverse_in(
                      [g EXCEPT !.mem["aa"] = WriteBytes(@, i, << g.mem[a][15 - i + 1] >>),
                                !.mem["bb"] = WriteBytes(@, i, << g.mem[b][15 - i + 1] >>),
                                !.tr = @ \o << << "ld", a, 15 - i, 1 >>, << "st", "aa", i, 1 >>,
                                               << "ld", b, 15 - i, 1 >>, << "st", "bb", i, 1 >> >>],
                      a, b, i + 1)
             ELSE g)

\* for( i = 0; i < 16; i++ ) c[i] = cc[15 - i];
RECURSIVE gcm_mult_reverse_out(_, _, _)
gcm_mult_reverse_out(g, c, i) ==
    After(g, IF i < 16
             THEN gcm_mult_reverse_out(
                      [g EXCEPT !.mem[c] = WriteBytes(@, i, << g.mem["cc"][15 - i + 1] >>),
                                !.tr = @ \o << << "ld", "cc", 15 - i, 1 >>, << "st", c, i, 1 >> >>],
                      c, i + 1)
             ELSE g)

\* the asm block, run on the locals
gcm_mult_block(g) ==
    Exec(gcm_mult_prog, << "aa", "bb", "cc" >>,
         [AsmInit(<< 0, 0, 0 >>, g.mem) EXCEPT !.tr = g.tr])

\* on return the locals are gone
gcm_mult_leave(mem, g) == [mem |-> [n \in DOMAIN mem |-> g.mem[n]], tr |-> g.tr]

gcm_mult_asm(mem, c, a, b) ==
    gcm_mult_leave(mem,
        gcm_mult_reverse_out(
            gcm_mult_block(
                gcm_mult_reverse_in([mem |-> gcm_mult_frame(mem), tr |-> << >>], a, b, 0)),
            c, 0))

mbedtls_aesni_gcm_mult(bld, mem, c, a, b) ==
    IF bld = "intrin" THEN gcm_mult_intrin(mem, c, a, b)
    ELSE gcm_mult_asm(mem, c, a, b)

(***************************************************************************)
(* AES-NI support detection.  The two statics of                           *)
(* mbedtls_aesni_has_support are plain int / unsigned int: no volatile,    *)
(* no atomics, no lock.  A call is the steps                               *)
(*   test  - if( ! done )                                                  *)
(*   cpuid - the CPUID query, result in a register                         *)
(*   the two stores  c = <ecx>  and  done = 1                              *)
(*   ret   - return( ( c & what ) != 0 )                                   *)
(* Because nothing orders the two plain stores for another thread, the     *)
(* build may emit them in either order; `reorder` is that choice.          *)
(***************************************************************************)
\* a & b on non-negative integers
RECURSIVE AndN(_, _)
AndN(a, b) ==
    IF a = 0 \/ b = 0 THEN 0
    ELSE (a % 2) * (b % 2) + 2 * AndN(a \div 2, b \div 2)

\* the test of done that never finds the cache filled
NeedsQuery_always(d) == TRUE

\* if( ! done )
NeedsQuery(d) == d = 0

\* return( ( c & what ) != 0 )
has_support_return(cached, what) == AndN(cached, what) # 0

(***************************************************************************)
(* The state machines.                                                     *)
(***************************************************************************)
VARIABLES build,    \* "asm" or "intrin": how the file was compiled
          key,      \* the key memory last expanded successfully
          nr,       \* ctx->nr, the number of rounds
          rk,       \* the encryption round key buffer (ctx->rk)
          ik,       \* the decryption round key buffer
          pt,       \* the block given to encryption
          ct,       \* the output buffer of encryption
          dt,       \* the output buffer of decryption
          valid,    \* which of rk, ik, ct, dt have been produced
          last,     \* the last AES call: arguments, return value, trace
          gmem,     \* the three 16-byte buffers X, Y, Z of the GCM caller
          glast,    \* the last mbedtls_aesni_gcm_mult call
          hw,       \* what CPUID leaf 1 reports in ECX on this machine
          reorder,  \* TRUE when done = 1 is stored before c
          done,     \* static int done
          c,        \* static unsigned int c
          th,       \* per thread: position, argument, register, result
          queries,  \* how many times CPUID was executed
          answers   \* per mask, the values returned so far

aesVars == << build, key, nr, rk, ik, pt, ct, dt, valid, last >>
gcmVars == << gmem, glast >>
detVars == << hw, reorder, done, c, th, queries, answers >>
vars == << aesVars, gcmVars, detVars >>

NumKeys == 2
NumBlocks == 2
NumElems == 6
NumThreads == 2
MaxCalls == 2

KeySizes == {128, 192, 256}

Fill16(b) == << b, b, b, b, b, b, b, b, b, b, b, b, b, b, b, b >>

\* a round key buffer filled with b: 68 32-bit words, as mbedtls_aes_context.buf
MkBuf(b) ==
    Fill16(b) \o Fill16(b) \o Fill16(b) \o Fill16(b) \o Fill16(b) \o Fill16(b)
        \o Fill16(b) \o Fill16(b) \o Fill16(b) \o Fill16(b) \o Fill16(b) \o Fill16(b)
        \o Fill16(b) \o Fill16(b) \o Fill16(b) \o Fill16(b) \o Fill16(b)

\* the 32 bytes of key number k; key 1 is 00 01 02 .. 1f
KeyBytes(k) == [j \in 1..32 |-> ((j - 1) * (2 * k - 1) + 97 * (k - 1)) % 256]

\* the key as it lies in memory: bits / 8 key bytes and whatever follows them
KeyMem(k, bits, pad) ==
    SubSeq(KeyBytes(k), 1, IF bits \in KeySizes THEN bits \div 8 ELSE 16) \o Fill16(pad)

\* the 16 bytes of block number p; block 1 is 00 11 22 .. ff
Block(p) == [i \in 1..16 |-> ((i - 1) * 17 * p + 59 * (p - 1)) % 256]

\* ctx->nr as the caller sets it for a key size
Rounds(bits) == 6 + bits \div 32

DetIdle ==
    /\ hw = 0 /\ reorder = FALSE /\ done = 0 /\ c = 0
    /\ th = [t \in 1..NumThreads |->
                [pc |-> "idle", what |-> 0, ecx |-> 0, ret |-> FALSE, calls |-> 0]]
    /\ queries = 0
    /\ answers = << >>

GcmIdle ==
    /\ gmem = [X |-> Zero16, Y |-> Zero16, Z |-> Zero16]
    /\ glast = [op |-> "none"]

AesIdle(fill) ==
    /\ key = << >> /\ nr = 0
    /\ rk = MkBuf(fill) /\ ik = MkBuf(fill)
    /\ pt = Zero16 /\ ct = Fill16(fill) /\ dt = Fill16(fill)
    /\ valid = {}
    /\ last = [op |-> "none"]

Init ==
    /\ build \in {"asm", "intrin"}
    /\ \E fill \in {0, 165} : AesIdle(fill)
    /\ GcmIdle
    /\ DetIdle

\* the effects of a setkey call that returned r
SetkeyEncDone(bits, km, r) ==
    /\ rk' = r.mem.rk
    /\ last' = [op |-> "setkey_enc", bits |-> bits, ret |-> r.ret,
                rk_in |-> rk, tr |-> r.tr]
    /\ IF r.ret = 0
       THEN key' = km /\ nr' = Rounds(bits) /\ valid' = {"rk"}
       ELSE UNCHANGED << key, nr, valid >>

\* mbedtls_aesni_setkey_enc( rk, key, bits ); a supported size only on a
\* fresh context, an unsupported one also on a context that holds a schedule
SetkeyEnc(bits, k, pad) ==
    /\ valid \subseteq {"rk"}
    /\ bits \in KeySizes => valid = {}
    /\ SetkeyEncDone(bits, KeyMem(k, bits, pad),
                     mbedtls_aesni_setkey_enc(build, rk, KeyMem(k, bits, pad), bits))
    /\ UNCHANGED << build, ik, pt, ct, dt, gcmVars, detVars >>

InverseKeyDone(r) ==
    /\ ik' = r.mem.invkey
    /\ rk' = r.mem.fwdkey
    /\ last' = [op |-> "inverse_key", nr |-> nr, tr |-> r.tr]

\* mbedtls_aesni_inverse_key( ik, rk, nr )
InverseKey ==
    /\ "rk" \in valid /\ "ik" \notin valid
    /\ InverseKeyDone(mbedtls_aesni_inverse_key(build, ik, rk, nr))
    /\ valid' = valid \cup {"ik"}
    /\ UNCHANGED << build, key, nr, pt, ct, dt, gcmVars, detVars >>

EncryptDone(input, r) ==
    /\ pt' = input
    /\ ct' = r.mem.output
    /\ rk' = r.mem.rk
    /\ last' = [op |-> "crypt_ecb", mode |-> MBEDTLS_AES_ENCRYPT, nr |-> nr,
                input |-> input, rk_in |-> r.mem.rk, ret |-> r.ret, tr |-> r.tr]

\* mbedtls_aesni_crypt_ecb( ctx, MBEDTLS_AES_ENCRYPT, pt, ct )
Encrypt(p) ==
    /\ "rk" \in valid /\ "ct" \notin valid
    /\ EncryptDone(Block(p),
           mbedtls_aesni_crypt_ecb(build, nr, rk, MBEDTLS_AES_ENCRYPT, Block(p), ct))
    /\ valid' = valid \cup {"ct"}
    /\ UNCHANGED << build, key, nr, ik, dt, gcmVars, detVars >>

DecryptDone(r) ==
    /\ dt' = r.mem.output
    /\ ik' = r.mem.rk
    /\ last' = [op |-> "crypt_ecb", mode |-> MBEDTLS_AES_DECRYPT, nr |-> nr,
                input |-> ct, rk_in |-> r.mem.rk, ret |-> r.ret, tr |-> r.tr]

\* mbedtls_aesni_crypt_ecb( ctx, MBEDTLS_AES_DECRYPT, ct, dt ), ctx->rk being
\* the decryption round keys
Decrypt ==
    /\ {"ik", "ct"} \subseteq valid /\ "dt" \notin valid
    /\ DecryptDone(mbedtls_aesni_crypt_ecb(build, nr, ik, MBEDTLS_AES_DECRYPT, ct, dt))
    /\ valid' = valid \cup {"dt"}
    /\ UNCHANGED << build, key, nr, rk, pt, ct, gcmVars, detVars >>

Next ==
    \/ \E bits \in KeySizes \cup {100, 0}, k \in 1..NumKeys, pad \in {0, 255} :
          SetkeyEnc(bits, k, pad)
    \/ InverseKey
    \/ \E p \in 1..NumBlocks : Encrypt(p)
    \/ Decrypt

Spec == Init /\ [][Next]_vars

(***************************************************************************)
(* GCM multiplication: the caller fills X and Y, clears Z and calls        *)
(* mbedtls_aesni_gcm_mult( out, X, Y ) with out one of Z, X, Y.            *)
(***************************************************************************)
\* field element number k: 0, the field's one (bit 0 set, i.e. byte 0 = 0x80),
\* the two operands of the first GHASH step of a GCM test case (H and the
\* ciphertext block), then generated ones
Elem(k) ==
    CASE k = 1 -> Zero16
      [] k = 2 -> << 128, 0, 0, 0, 0, 0, 0, 0, 0, 0, 0, 0, 0, 0, 0, 0 >>
      [] k = 3 -> << 102, 233, 75, 212, 239, 138, 44, 59,
                     136, 76, 250, 89, 202, 52, 43, 46 >>
      [] k = 4 -> << 3, 136, 218, 206, 96, 182, 163, 146,
                     243, 40, 194, 185, 113, 178, 254, 120 >>
      [] OTHER -> [i \in 1..16 |-> (i * 37 * k + 11 * k + (i * i) * (k % 7)) % 256]

\* the caller writes the operands to X and Y and clears Z
GcmLoad(x, y) ==
    /\ gmem' = [X |-> Elem(x), Y |-> Elem(y), Z |-> Zero16]
    /\ glast' = [op |-> "load"]
    /\ UNCHANGED << aesVars, detVars >>

GcmMultDone(out, r) ==
    /\ gmem' = [X |-> r.mem["X"], Y |-> r.mem["Y"], Z |-> r.mem["Z"]]
    /\ glast' = [op |-> "gcm_mult", a |-> gmem.X, b |-> gmem.Y, out |-> out,
                 tr |-> r.tr]

\* mbedtls_aesni_gcm_mult( out, X, Y ) on freshly loaded operands
GcmMult(out) ==
    /\ glast.op = "load"
    /\ GcmMultDone(out, mbedtls_aesni_gcm_mult(build, gmem, out, "X", "Y"))
    /\ UNCHANGED << aesVars, detVars >>

InitGcm ==
    /\ build \in {"asm", "intrin"}
    /\ AesIdle(0)
    /\ GcmIdle
    /\ DetIdle

NextGcm ==
    \/ \E x \in 1..NumElems, y \in 1..NumElems : GcmLoad(x, y)
    \/ \E out \in {"Z", "X", "Y"} : GcmMult(out)

SpecGcm == InitGcm /\ [][NextGcm]_vars

(***************************************************************************)
(* Support detection: threads calling mbedtls_aesni_has_support.           *)
(***************************************************************************)
\* ECX of CPUID leaf 1: bit 1 is PCLMULQDQ, bit 25 is AES
FeatureWords == {0, 2, 2^25, 2^25 + 2}

\* the masks callers pass: MBEDTLS_AESNI_AES and MBEDTLS_AESNI_CLMUL
CapabilityMasks == {2^25, 2}

InitDetect ==
    /\ build = "asm"
    /\ AesIdle(0)
    /\ GcmIdle
    /\ hw \in FeatureWords
    /\ reorder \in BOOLEAN
    /\ done = 0 /\ c = 0
    /\ th = [t \in 1..NumThreads |->
                [pc |-> "idle", what |-> 0, ecx |-> 0, ret |-> FALSE, calls |-> 0]]
    /\ queries = 0
    /\ answers = [m \in CapabilityMasks |-> {}]

\* thread t enters mbedtls_aesni_has_support( what )
Call(t, what) ==
    /\ th[t].pc = "idle" /\ th[t].calls < MaxCalls
    /\ th' = [th EXCEPT ![t].pc = "test", ![t].what = what]
    /\ UNCHANGED << hw, reorder, done, c, queries, answers, aesVars, gcmVars >>

\* if( ! done )
TestDone(t) ==
    /\ th[t].pc = "test"
    /\ th' = [th EXCEPT ![t].pc = IF NeedsQuery(done) THEN "cpuid" ELSE "ret"]
    /\ UNCHANGED << hw, reorder, done, c, queries, answers, aesVars, gcmVars >>

\* movl $1, %eax; cpuid  /  __cpuid( regs, 1 )
Cpuid(t) ==
    /\ th[t].pc = "cpuid"
    /\ th' = [th EXCEPT ![t].pc = "store1", ![t].ecx = hw]
    /\ queries' = queries + 1
    /\ UNCHANGED << hw, reorder, done, c, answers, aesVars, gcmVars >>

\* the first of the two stores as the build emitted them
Store1(t) ==
    /\ th[t].pc = "store1"
    /\ IF reorder THEN done' = 1 /\ c' = c ELSE c' = th[t].ecx /\ done' = done
    /\ th' = [th EXCEPT ![t].pc = "store2"]
    /\ UNCHANGED << hw, reorder, queries, answers, aesVars, gcmVars >>

\* the second store
Store2(t) ==
    /\ th[t].pc = "store2"
    /\ IF reorder THEN c' = th[t].ecx /\ done' = done ELSE done' = 1 /\ c' = c
    /\ th' = [th EXCEPT ![t].pc = "ret"]
    /\ UNCHANGED << hw, reorder, queries, answers, aesVars, gcmVars >>

\* return( ( c & what ) != 0 )
Return(t) ==
    /\ th[t].pc = "ret"
    /\ th' = [th EXCEPT ![t].pc = "idle", ![t].calls = @ + 1,
                        ![t].ret = has_support_return(c, th[t].what)]
    /\ answers' = [answers EXCEPT ![th[t].what] =
                      @ \cup {has_support_return(c, th[t].what)}]
    /\ UNCHANGED << hw, reorder, done, c, queries, aesVars, gcmVars >>

NextDetect ==
    \/ \E t \in 1..NumThreads, what \in CapabilityMasks : Call(t, what)
    \/ \E t \in 1..NumThreads : TestDone(t)
    \/ \E t \in 1..NumThreads : Cpuid(t)
    \/ \E t \in 1..NumThreads : Store1(t)
    \/ \E t \in 1..NumThreads : Store2(t)
    \/ \E t \in 1..NumThreads : Return(t)

SpecDetect == InitDetect /\ [][NextDetect]_vars

\* one thread only: a sequential series of calls
NextSeq ==
    \/ \E what \in CapabilityMasks : Call(1, what)
    \/ TestDone(1)
    \/ Cpuid(1)
    \/ Store1(1)
    \/ Store2(1)
    \/ Return(1)

SpecSeq == InitDetect /\ [][NextSeq]_vars

(***************************************************************************)
(* References the routines are compared with.  They are written from the   *)
(* standards (FIPS-197, SP 800-38D), with their own arithmetic.            *)
(***************************************************************************)
RCON == << 1, 2, 4, 8, 16, 32, 64, 128, 27, 54 >>

RotWord(w) == << w[2], w[3], w[4], w[1] >>

SubWord(w) == << SBOX[w[1] + 1], SBOX[w[2] + 1], SBOX[w[3] + 1], SBOX[w[4] + 1] >>

XorWord(a, b) == << Xor(a[1], b[1]), Xor(a[2], b[2]), Xor(a[3], b[3]), Xor(a[4], b[4]) >>

\* the word XORed with w[i - Nk] to give w[i]; w holds w[0..i-1] at 1..i
KeyExpansionT(w, Nk, i) ==
    IF i % Nk = 0
    THEN XorWord(SubWord(RotWord(w[i])), << RCON[i \div Nk], 0, 0, 0 >>)
    ELSE IF Nk = 8 /\ i % 8 = 4 THEN SubWord(w[i])
    ELSE w[i]

\* FIPS-197 KeyExpansion: w extended to n words
RECURSIVE KeyExpansionFrom(_, _, _)
KeyExpansionFrom(w, Nk, n) ==
    After(w, IF Len(w) >= n THEN w
             ELSE KeyExpansionFrom(
                      Append(w, XorWord(w[Len(w) + 1 - Nk], KeyExpansionT(w, Nk, Len(w)))),
                      Nk, n))

\* the key schedule of a key of Nk words for Nr rounds, as 4 * (Nr + 1) words
KeyExpansion(k, Nk, Nr) ==
    KeyExpansionFrom([i \in 1..Nk |-> SubSeq(k, 4 * i - 3, 4 * i)], Nk, 4 * (Nr + 1))

\* multiplication in GF(2^8) modulo x^8 + x^4 + x^3 + x + 1, by shift and add
RECURSIVE RefGFMul(_, _)
RefGFMul(a, b) ==
    IF b = 0 THEN 0
    ELSE Xor(IF b % 2 = 1 THEN a ELSE 0,
             RefGFMul(IF a < 128 THEN 2 * a ELSE Xor(2 * a - 256, 27), b \div 2))

\* FIPS-197 InvMixColumns on one column (4 bytes): the matrix 0e 0b 0d 09
RefInvMixColumn(col) ==
    [r \in 1..4 |->
        Xor(Xor(RefGFMul(col[r], 14), RefGFMul(col[(r % 4) + 1], 11)),
            Xor(RefGFMul(col[((r + 1) % 4) + 1], 13), RefGFMul(col[((r + 2) % 4) + 1], 9)))]

RefInvMixColumns(x) ==
    RefInvMixColumn(SubSeq(x, 1, 4)) \o RefInvMixColumn(SubSeq(x, 5, 8))
        \o RefInvMixColumn(SubSeq(x, 9, 12)) \o RefInvMixColumn(SubSeq(x, 13, 16))

\* round key i of the Equivalent Inverse Cipher (FIPS-197 5.3.5): the
\* forward keys in reverse order, the interior ones through InvMixColumns
RefDecKey(w, Nr, i) ==
    IF i = 0 \/ i = Nr
    THEN w[4 * (Nr - i) + 1] \o w[4 * (Nr - i) + 2]
             \o w[4 * (Nr - i) + 3] \o w[4 * (Nr - i) + 4]
    ELSE RefInvMixColumns(w[4 * (Nr - i) + 1] \o w[4 * (Nr - i) + 2]
                              \o w[4 * (Nr - i) + 3] \o w[4 * (Nr - i) + 4])

\* SP 800-38D 6.3: blocks are bit strings, bit 0 the top bit of byte 0.
\* V * x: V >> 1 on the whole block, XORed with R = 11100001 || 0^120 when
\* the low bit was set
RefMulX(v) ==
    [i \in 1..16 |->
        Xor((v[i] \div 2) + (IF i = 1 THEN 0 ELSE 128 * (v[i - 1] % 2)),
            IF i = 1 /\ v[16] % 2 = 1 THEN 225 ELSE 0)]

\* steps for the 8 bits of one byte xb of X (top bit first); zv = << Z, V >>
RECURSIVE RefGcmByte(_, _, _)
RefGcmByte(xb, zv, j) ==
    After(zv, IF j = 8 THEN zv
              ELSE RefGcmByte(xb,
                       << IF (xb \div (2 ^ (7 - j))) % 2 = 1
                          THEN [i \in 1..16 |-> Xor(zv[1][i], zv[2][i])] ELSE zv[1],
                          RefMulX(zv[2]) >>,
                       j + 1))

RECURSIVE RefGcmBytes(_, _, _)
RefGcmBytes(x, zv, i) ==
    After(zv, IF i > 16 THEN zv[1]
              ELSE RefGcmBytes(x, RefGcmByte(x[i], zv, 0), i + 1))

\* Z = X * Y in GF(2^128) by the bit-serial algorithm
RefGcmMult(x, y) == RefGcmBytes(x, << Zero16, y >>, 1)

\* the rounds of the cipher from round i on: one full (inverse) round with
\* each of the keys i..n-1, then the final (inverse) round with key n
RECURSIVE RefCryptRounds(_, _, _, _, _)
RefCryptRounds(enc, s, rkbuf, i, n) ==
    After(s, IF i = n
             THEN IF enc THEN AESENCLAST(s, ReadBytes(rkbuf, 16 * n, 16))
                  ELSE AESDECLAST(s, ReadBytes(rkbuf, 16 * n, 16))
             ELSE RefCryptRounds(enc,
                      IF enc THEN AESENC(s, ReadBytes(rkbuf, 16 * i, 16))
                      ELSE AESDEC(s, ReadBytes(rkbuf, 16 * i, 16)),
                      rkbuf, i + 1, n))

\* as a plain tuple
Tuple16(f) ==
    << f[1], f[2], f[3], f[4], f[5], f[6], f[7], f[8],
       f[9], f[10], f[11], f[12], f[13], f[14], f[15], f[16] >>

\* every byte of a buffer complemented
Flip(buf) == [i \in 1..Len(buf) |-> 255 - buf[i]]

(***************************************************************************)
(* Properties.                                                             *)
(***************************************************************************)

\* C1 - round trip: the block that crypt_ecb decrypts under the schedule
\* inverse_key derived from setkey_enc's schedule, from the block crypt_ecb
\* encrypted under that schedule, is the plaintext (all three key sizes).
C1_RoundTrip == "dt" \in valid => dt = pt

C1_Witness == "dt" \in valid /\ dt = pt /\ ct # pt /\ nr = 12 /\ build = "asm"

\* C2 - round keys 0..rounds in rk are the FIPS-197 KeyExpansion of the key,
\* word for word (raw key first, then w[i] = w[i-Nk] XOR t with the round
\* constants 01 02 04 08 10 20 40 80 1B 36 in order).
C2_KeyExpansion ==
    "rk" \in valid =>
        [i \in 1..(4 * (nr + 1)) |-> ReadBytes(rk, 4 * (i - 1), 4)]
            = KeyExpansion(key, nr - 6, nr)

C2_Witness ==
    /\ last.op = "setkey_enc" /\ last.ret = 0 /\ nr = 14 /\ build = "intrin"
    /\ ReadBytes(rk, 0, 32) = SubSeq(key, 1, 32)
    /\ ReadBytes(rk, 32, 4) # ReadBytes(last.rk_in, 32, 4)

\* C3 - inverse_key writes exactly rounds+1 round keys: key 0 is forward key
\* `rounds`, key `rounds` is forward key 0, interior key i is InvMixColumns
\* of forward key rounds-i; the result is the Equivalent Inverse Cipher
\* schedule of the reference expansion of the key.
C3_InverseKey ==
    "ik" \in valid =>
        /\ \A i \in 0..nr :
               ReadBytes(ik, 16 * i, 16) =
                   IF i = 0 \/ i = nr THEN ReadBytes(rk, 16 * (nr - i), 16)
                   ELSE Tuple16(RefInvMixColumns(ReadBytes(rk, 16 * (nr - i), 16)))
        /\ \A i \in 0..nr :
               ReadBytes(ik, 16 * i, 16) =
                   Tuple16(RefDecKey(KeyExpansion(key, nr - 6, nr), nr, i))
        /\ last.op = "inverse_key" =>
               Written(last.tr, "invkey") = 0..(16 * (nr + 1) - 1)

C3_Witness ==
    /\ last.op = "inverse_key" /\ nr = 10
    /\ ReadBytes(ik, 0, 16) = ReadBytes(rk, 160, 16)
    /\ ReadBytes(ik, 160, 16) = ReadBytes(rk, 0, 16)
    /\ ReadBytes(ik, 16, 16) # ReadBytes(rk, 144, 16)

\* C4 - the output of gcm_mult is the GF(2^128) product of its operands as
\* the bit-serial multiplier of the GCM specification computes it.
C4_Multiply ==
    glast.op = "gcm_mult" => gmem[glast.out] = Tuple16(RefGcmMult(glast.a, glast.b))

C4_Witness ==
    /\ glast.op = "gcm_mult" /\ glast.out = "Z" /\ build = "asm"
    /\ glast.a = Elem(3) /\ glast.b = Elem(4)
    /\ gmem.Z = << 94, 46, 199, 70, 145, 112, 98, 136, 44, 133, 176, 104, 83, 83, 222, 183 >>

\* C5 - setkey_enc with bits outside {128, 192, 256} returns
\* MBEDTLS_ERR_AES_INVALID_KEY_LENGTH and changes no byte of the round key
\* buffer; with bits in {128, 192, 256} it returns 0.
C5_InvalidKeyLength ==
    last.op = "setkey_enc" =>
        IF last.bits \in KeySizes THEN last.ret = 0
        ELSE /\ last.ret = MBEDTLS_ERR_AES_INVALID_KEY_LENGTH
             /\ rk = last.rk_in
             /\ Written(last.tr, "rk") = {}

C5_Witness ==
    /\ last.op = "setkey_enc" /\ last.bits = 100
    /\ last.ret = MBEDTLS_ERR_AES_INVALID_KEY_LENGTH
    /\ "rk" \in valid /\ rk = last.rk_in /\ ReadBytes(rk, 0, 16) = SubSeq(key, 1, 16)

\* C6 - with threads calling has_support concurrently and no lock, every
\* call returns ( hardware feature word & mask ) != 0.
C6_SameAnswer ==
    \A m \in CapabilityMasks : answers[m] \subseteq {AndN(hw, m) # 0}

\* C7 - in a sequential series of has_support calls CPUID runs on the first
\* call only, the cached word never changes once that call returned, and for
\* each mask every call returns the same value.
C7_Sequential ==
    /\ [](queries <= 1)
    /\ [](th[1].calls >= 1 => queries = 1 /\ done = 1 /\ c = hw)
    /\ [](\A m \in CapabilityMasks : Cardinality(answers[m]) <= 1)
    /\ [][th[1].calls >= 1 => c' = c /\ done' = done]_vars

C7_Witness ==
    /\ th[1].calls >= 2 /\ queries = 1 /\ done = 1 /\ c = hw
    /\ th[1].ret = TRUE /\ answers[2] = {TRUE}

\* C8 as claimed - for bits in {128, 192} a successful setkey_enc writes
\* exactly rounds+1 round keys (176 / 208 bytes) and no byte at offset
\* 16 * (rounds + 1) or beyond.
C8_ExactlyRoundKeys ==
    (last.op = "setkey_enc" /\ last.ret = 0 /\ last.bits \in {128, 192}) =>
        Written(last.tr, "rk") = 0..(16 * (Rounds(last.bits) + 1) - 1)

\* C8 as the code has it - for 128 bits exactly bytes 0..175 are written;
\* for 192 bits exactly bytes 0..207 in the intrinsics build, and in the
\* assembly build bytes 0..215: the 13 round keys and the 8 bytes after them.
C8_WrittenBytes ==
    (last.op = "setkey_enc" /\ last.ret = 0 /\ last.bits \in {128, 192}) =>
        /\ [i \in 1..(4 * (nr + 1)) |-> ReadBytes(rk, 4 * (i - 1), 4)]
               = KeyExpansion(key, nr - 6, nr)
        /\ Written(last.tr, "rk") =
               IF last.bits = 192 /\ build = "asm"
               THEN 0..(16 * (Rounds(last.bits) + 1) + 8 - 1)
               ELSE 0..(16 * (Rounds(last.bits) + 1) - 1)

C8_Witness ==
    /\ last.op = "setkey_enc" /\ last.ret = 0 /\ last.bits = 192 /\ build = "asm"
    /\ Written(last.tr, "rk") = 0..215
    /\ ReadBytes(rk, 208, 8) # ReadBytes(last.rk_in, 208, 8)
    /\ ReadBytes(rk, 216, 8) = ReadBytes(last.rk_in, 216, 8)

\* C9 - crypt_ecb is data independent: a call with the same direction and
\* rounds but other input and other round key bytes takes the same branches
\* and reads and writes the same offsets in the same order.
C9_DataIndependent ==
    last.op = "crypt_ecb" =>
        /\ mbedtls_aesni_crypt_ecb(build, last.nr, Flip(last.rk_in), last.mode,
                                   last.input, Zero16).tr = last.tr
        /\ mbedtls_aesni_crypt_ecb(build, last.nr, MkBuf(0), last.mode,
                                   Tuple16(Flip(last.input)), Zero16).tr = last.tr

C9_Witness ==
    /\ last.op = "crypt_ecb" /\ last.mode = MBEDTLS_AES_DECRYPT /\ nr = 14
    /\ Len(last.tr) > 2 * nr
    /\ mbedtls_aesni_crypt_ecb(build, last.nr, MkBuf(0), last.mode,
                               Tuple16(Flip(last.input)), Zero16).tr = last.tr

\* C10 - gcm_mult is commutative: the product of a and b is the product of
\* b and a.
C10_Commutative ==
    glast.op = "gcm_mult" =>
        gmem[glast.out] =
            mbedtls_aesni_gcm_mult(build, [X |-> glast.b, Y |-> glast.a, Z |-> Zero16],
                                   "Z", "X", "Y").mem["Z"]

C10_Witness ==
    /\ glast.op = "gcm_mult" /\ glast.a = Elem(5) /\ glast.b = Elem(3)
    /\ gmem[glast.out] # Zero16
    /\ gmem[glast.out] =
           mbedtls_aesni_gcm_mult(build, [X |-> glast.b, Y |-> glast.a, Z |-> Zero16],
                                  "Z", "X", "Y").mem["Z"]


\* C11 - zero annihilates: gcm_mult of any a with the all-zero b gives the
\* all-zero 16-byte value, whichever buffer receives it.
C11_ZeroAnnihilates ==
    (glast.op = "gcm_mult" /\ glast.b = Zero16) => gmem[glast.out] = Zero16

C11_Witness ==
    /\ glast.op = "gcm_mult" /\ glast.b = Zero16 /\ glast.a = Elem(4)
    /\ glast.out = "X" /\ gmem.X = Zero16 /\ build = "asm"

\* C12 - the FIPS-197 AES-128 vector: under the schedule of the key
\* 000102030405060708090a0b0c0d0e0f, 10 rounds, the block
\* 00112233445566778899aabbccddeeff encrypts to
\* 69c4e0d86a7b0430d8cdb78070b4c55a.
C12_Fips197Vector ==
    ( /\ last.op = "crypt_ecb" /\ last.mode = MBEDTLS_AES_ENCRYPT /\ nr = 10
      /\ SubSeq(key, 1, 16) = << 0, 1, 2, 3, 4, 5, 6, 7, 8, 9, 10, 11, 12, 13, 14, 15 >>
      /\ last.input = << 0, 17, 34, 51, 68, 85, 102, 119,
                         136, 153, 170, 187, 204, 221, 238, 255 >> )
        => ct = << 105, 196, 224, 216, 106, 123, 4, 48,
                   216, 205, 183, 128, 112, 180, 197, 90 >>

C12_Witness ==
    /\ last.op = "crypt_ecb" /\ last.mode = MBEDTLS_AES_ENCRYPT /\ nr = 10
    /\ SubSeq(key, 1, 16) = << 0, 1, 2, 3, 4, 5, 6, 7, 8, 9, 10, 11, 12, 13, 14, 15 >>
    /\ pt = << 0, 17, 34, 51, 68, 85, 102, 119, 136, 153, 170, 187, 204, 221, 238, 255 >>
    /\ ct = << 105, 196, 224, 216, 106, 123, 4, 48, 216, 205, 183, 128, 112, 180, 197, 90 >>

\* C13 - crypt_ecb, in either direction and for 10, 12 or 14 rounds, loads
\* the round keys at positions 0, 1, .. rounds each exactly once, in
\* ascending order; key 0 is XORed into the input, keys 1..rounds-1 each
\* serve one full (inverse) round and key `rounds` the final (inverse)
\* round; the 16-byte result is stored once, last of all; the loop makes
\* exactly rounds-1 iterations and the call returns 0.
C13_RoundKeyOrder ==
    last.op = "crypt_ecb" =>
        /\ last.ret = 0
        /\ \A k \in 0..last.nr :
               Cardinality({i \in DOMAIN last.tr :
                               /\ last.tr[i][1] = "ld" /\ last.tr[i][2] = "rk"
                               /\ last.tr[i][3] = 16 * k /\ last.tr[i][4] = 16}) = 1
        /\ Cardinality({i \in DOMAIN last.tr :
                           last.tr[i][1] = "ld" /\ last.tr[i][2] = "rk"}) = last.nr + 1
        /\ \A i, j \in DOMAIN last.tr :
               ( /\ i < j
                 /\ last.tr[i][1] = "ld" /\ last.tr[i][2] = "rk"
                 /\ last.tr[j][1] = "ld" /\ last.tr[j][2] = "rk" )
                   => last.tr[i][3] < last.tr[j][3]
        /\ last.tr[Len(last.tr)] = << "st", "output", 0, 16 >>
        /\ Cardinality({i \in DOMAIN last.tr : last.tr[i][1] = "st"}) = 1
        /\ Cardinality({i \in DOMAIN last.tr :
                           /\ last.tr[i][1] = "br"
                           /\ IF build = "asm" THEN last.tr[i][2] \in {13, 22}
                              ELSE last.tr[i][2] = "for" /\ last.tr[i][3]})
               = last.nr - 1
        /\ (IF last.mode = MBEDTLS_AES_ENCRYPT THEN ct ELSE dt) =
               RefCryptRounds(last.mode = MBEDTLS_AES_ENCRYPT,
                              pxor(last.input, ReadBytes(last.rk_in, 0, 16)),
                              last.rk_in, 1, last.nr)

C13_Witness ==
    /\ last.op = "crypt_ecb" /\ last.mode = MBEDTLS_AES_DECRYPT /\ last.nr = 12
    /\ build = "intrin" /\ last.ret = 0
    /\ Cardinality({i \in DOMAIN last.tr :
                       last.tr[i][1] = "ld" /\ last.tr[i][2] = "rk"}) = 13
    /\ last.tr[Len(last.tr)] = << "st", "output", 0, 16 >>
    /\ dt = pt

\* C14 as claimed - a successful 256-bit setkey_enc writes the 15 round keys
\* and exactly one further 16-byte slot (index 15), bytes 0..255 in all, and
\* neither crypt_ecb nor inverse_key with 14 rounds reads that slot.
C14_ExtraSlot ==
    /\ (last.op = "setkey_enc" /\ last.ret = 0 /\ last.bits = 256) =>
           Written(last.tr, "rk") = 0..255
    /\ (last.op = "crypt_ecb" /\ last.nr = 14) =>
           \A i \in DOMAIN last.tr :
               (last.tr[i][1] = "ld" /\ last.tr[i][2] = "rk") =>
                   last.tr[i][3] + last.tr[i][4] <= 240
    /\ (last.op = "inverse_key" /\ last.nr = 14) =>
           \A i \in DOMAIN last.tr :
               (last.tr[i][1] = "ld" /\ last.tr[i][2] = "fwdkey") =>
                   last.tr[i][3] + last.tr[i][4] <= 240

\* C14 as the code has it - a successful 256-bit setkey_enc writes the 15
\* round keys of the FIPS-197 expansion at bytes 0..239; the assembly build
\* also writes the slot of index 15 (bytes 240..255), the intrinsics build
\* writes nothing beyond byte 239; crypt_ecb and inverse_key with 14 rounds
\* load nothing at or beyond offset 240 of the schedule.
C14_WrittenBytes ==
    /\ (last.op = "setkey_enc" /\ last.ret = 0 /\ last.bits = 256) =>
           /\ [i \in 1..60 |-> ReadBytes(rk, 4 * (i - 1), 4)] = KeyExpansion(key, 8, 14)
           /\ Written(last.tr, "rk") = IF build = "asm" THEN 0..255 ELSE 0..239
           /\ build = "intrin" => ReadBytes(rk, 240, 32) = ReadBytes(last.rk_in, 240, 32)
    /\ (last.op = "crypt_ecb" /\ last.nr = 14) =>
           \A i \in DOMAIN last.tr :
               (last.tr[i][1] = "ld" /\ last.tr[i][2] = "rk") =>
                   last.tr[i][3] + last.tr[i][4] <= 240
    /\ (last.op = "inverse_key" /\ last.nr = 14) =>
           \A i \in DOMAIN last.tr :
               (last.tr[i][1] = "ld" /\ last.tr[i][2] = "fwdkey") =>
                   last.tr[i][3] + last.tr[i][4] <= 240

C14_Witness ==
    /\ last.op = "setkey_enc" /\ last.ret = 0 /\ last.bits = 256 /\ build = "intrin"
    /\ Written(last.tr, "rk") = 0..239
    /\ ReadBytes(rk, 224, 16) # ReadBytes(last.rk_in, 224, 16)
    /\ ReadBytes(rk, 240, 16) = ReadBytes(last.rk_in, 240, 16)

\* C15 - gcm_mult is safe in place: every byte of both inputs is loaded
\* before the first store to the output buffer, so with the output in the
\* buffer of a or of b the result is that of the call with a separate
\* output buffer, and with a separate output buffer a and b are unchanged.
C15_InPlace ==
    glast.op = "gcm_mult" =>
        /\ \A n \in {"X", "Y"} :
               UNION { IF glast.tr[i][1] = "ld" /\ glast.tr[i][2] = n
                       THEN glast.tr[i][3] .. (glast.tr[i][3] + glast.tr[i][4] - 1)
                       ELSE {} : i \in DOMAIN glast.tr } = 0..15
        /\ \A i, j \in DOMAIN glast.tr :
               ( /\ glast.tr[i][1] = "st" /\ glast.tr[i][2] = glast.out
                 /\ glast.tr[j][1] = "ld" /\ glast.tr[j][2] \in {"X", "Y"} ) => j < i
        /\ Written(glast.tr, glast.out) = 0..15
        /\ gmem[glast.out] =
               mbedtls_aesni_gcm_mult(build, [X |-> glast.a, Y |-> glast.b, Z |-> Zero16],
                                      "Z", "X", "Y").mem["Z"]
        /\ glast.out = "Z" => gmem.X = glast.a /\ gmem.Y = glast.b
        /\ glast.out = "X" => gmem.Y = glast.b
        /\ glast.out = "Y" => gmem.X = glast.a

C15_Witness ==
    /\ glast.op = "gcm_mult" /\ glast.out = "Y" /\ build = "intrin"
    /\ glast.a = Elem(3) /\ glast.b = Elem(4) /\ gmem.X = Elem(3)
    /\ gmem.Y = << 94, 46, 199, 70, 145, 112, 98, 136, 44, 133, 176, 104, 83, 83, 222, 183 >>
====
